---- MODULE Spec2Model ----
(***************************************************************************)
(* State/view engine of FAT (File & Archive Tool): the AppState record,    *)
(* state_init / state_reload_content / state_destroy_view /                *)
(* state_perform_search (src/src/core/state.c) and the action dispatch of  *)
(* process_input (src/src/core/controller.c), driven by the event loop of  *)
(* main (src/src/main/main.c).                                             *)
(*                                                                         *)
(* C strings are sequences of byte values.  A NULL pointer to a string is  *)
(* the empty sequence; every path of the model is non-empty.               *)
(***************************************************************************)
EXTENDS Integers, Sequences, FiniteSets, TLC

VARIABLES state, disk, pc, res, ub, faults

vars == <<state, disk, pc, res, ub, faults>>

NULL == <<>>

(***************************************************************************)
(* Environment of the model: terminal geometry, the process id that the    *)
(* plugins put into temp names, and the files the user can meet.           *)
(***************************************************************************)
\* getmaxy(state->right_pane): rows of the content pane
PaneHeight == 73
PaneHeights == {PaneHeight}
\* largest line number typed at the "gt" prompt
MaxLineInput == 4
\* how many times the environment disturbs one run: an allocation or a read
\* that fails although the file is there, an external command that deletes
\* or truncates the file it was given
MaxFaults == 1

\* "/r": the file named on the command line
RootPath == <<47, 114>>
\* "-7": "-%d" of getpid() in the extraction plugins
PidSuffix == <<45, 55>>
\* "/tmp/fat-"
TempFilePrefix == <<47, 116, 109, 112, 47, 102, 97, 116, 45>>

\* entry names "a", "d/a", "d_a"
NameA == <<97>>
NameDA == <<100, 47, 97>>
NameD_A == <<100, 95, 97>>
EntryNames == {NameA, NameDA, NameD_A}

MimeText == <<116, 101, 120, 116, 47, 112, 108, 97, 105, 110>>
MimeZip == <<97, 112, 112, 108, 105, 99, 97, 116, 105, 111, 110, 47, 122, 105, 112>>
MimeOctet == <<97, 112, 112, 108, 105, 99, 97, 116, 105, 111, 110, 47, 111, 99, 116, 101, 116, 45, 115, 116, 114, 101, 97, 109>>
MimeEmpty == <<105, 110, 111, 100, 101, 47, 120, 45, 101, 109, 112, 116, 121>>

\* The files of the model.  arch: a registered plugin's can_handle accepts
\* the file; entries: what list_contents returns, with the file each entry
\* extracts to; bytes: what fopen/fread see.
FileIds == {"zipA", "zipB", "zipE", "txt", "bin", "empty"}
Absent == "absent"

FileDef(id) ==
    CASE id = "zipA" -> [arch |-> TRUE, mime |-> MimeZip, bytes |-> <<80, 75>>,
                         entries |-> << [name |-> NameA, file |-> "zipB"],
                                        [name |-> NameDA, file |-> "txt"] >>]
      [] id = "zipB" -> [arch |-> TRUE, mime |-> MimeZip, bytes |-> <<80, 75>>,
                         entries |-> << [name |-> NameA, file |-> "bin"],
                                        [name |-> NameD_A, file |-> "zipE"] >>]
      [] id = "zipE" -> [arch |-> TRUE, mime |-> MimeZip, bytes |-> <<80, 75>>,
                         entries |-> << >>]
      \* "ab\na\nb\n"
      [] id = "txt" -> [arch |-> FALSE, mime |-> MimeText,
                        bytes |-> <<97, 98, 10, 97, 10, 98, 10>>,
                        entries |-> << >>]
      \* "\xC3\xA9\nxy" (a two-byte codepoint, no trailing newline)
      [] id = "bin" -> [arch |-> FALSE, mime |-> MimeOctet,
                        bytes |-> <<195, 169, 10, 120, 121>>,
                        entries |-> << >>]
      [] OTHER -> [arch |-> FALSE, mime |-> MimeEmpty, bytes |-> << >>,
                   entries |-> << >>]

(***************************************************************************)
(* String helpers of the C library, as the code uses them.                 *)
(***************************************************************************)
\* strncmp(s, p, strlen(p)) == 0
HasPrefix(s, p) == Len(s) >= Len(p) /\ SubSeq(s, 1, Len(p)) = p

Max(a, b) == IF a >= b THEN a ELSE b

\* "%zu" / "%ld"
RECURSIVE Dec(_)
Dec(n) == IF n < 10 THEN <<48 + n>> ELSE Dec(n \div 10) \o <<48 + (n % 10)>>

HexDigit(d) == IF d < 10 THEN 48 + d ELSE 55 + d

\* "%02X"
Hex2(b) == <<HexDigit(b \div 16), HexDigit(b % 16)>>

\* "%08lX"
Hex8(n) == <<48, 48, 48, 48>> \o Hex2(n \div 256) \o Hex2(n % 256)

\* isprint() in the C locale
IsPrint(b) == b >= 32 /\ b <= 126

\* strrchr(path, '/') + 1, or the path itself
RECURSIVE Basename(_)
Basename(p) ==
    IF \E i \in 1..Len(p) : p[i] = 47
    THEN Basename(Tail(p))
    ELSE p

(***************************************************************************)
(* External collaborators: the file helpers, the hex viewer and the        *)
(* archive plugins, by what they put into a StringList.                    *)
(***************************************************************************)
FAT_SUCCESS == "FAT_SUCCESS"
FAT_ERROR_MEMORY == "FAT_ERROR_MEMORY"
FAT_ERROR_FILE_NOT_FOUND == "FAT_ERROR_FILE_NOT_FOUND"
FAT_ERROR_FILE_READ == "FAT_ERROR_FILE_READ"
FAT_ERROR_ARCHIVE_ERROR == "FAT_ERROR_ARCHIVE_ERROR"
FAT_ERROR_UNSUPPORTED == "FAT_ERROR_UNSUPPORTED"

VIEW_MODE_NORMAL == "VIEW_MODE_NORMAL"
VIEW_MODE_ARCHIVE == "VIEW_MODE_ARCHIVE"
VIEW_MODE_BINARY_HEX == "VIEW_MODE_BINARY_HEX"

FORCE_VIEW_NONE == "FORCE_VIEW_NONE"
FORCE_VIEW_TEXT == "FORCE_VIEW_TEXT"
FORCE_VIEW_HEX == "FORCE_VIEW_HEX"

MODE_NORMAL == "MODE_NORMAL"

\* getline() loop of read_file_content: one entry per line, the trailing
\* newline trimmed, a last line without newline kept
RECURSIVE read_file_content(_)
read_file_content(bytes) ==
    IF bytes = << >> THEN << >>
    ELSE IF \E i \in 1..Len(bytes) : bytes[i] = 10
         THEN LET i == CHOOSE k \in 1..Len(bytes) :
                           bytes[k] = 10 /\ \A j \in 1..(k - 1) : bytes[j] # 10
              IN  <<SubSeq(bytes, 1, i - 1)>>
                      \o read_file_content(SubSeq(bytes, i + 1, Len(bytes)))
         ELSE <<bytes>>

\* bytes of one fread of the hex viewer
HexChunk == 16

RECURSIVE HexBytes(_, _)
HexBytes(chunk, i) ==
    IF i > HexChunk THEN << >>
    ELSE (IF i <= Len(chunk) THEN Hex2(chunk[i]) \o <<32>> ELSE <<32, 32, 32>>)
             \o HexBytes(chunk, i + 1)

HexAscii(chunk) == [i \in 1..Len(chunk) |-> IF IsPrint(chunk[i]) THEN chunk[i] ELSE 46]

HexLine(offset, chunk) ==
    Hex8(offset) \o <<58, 32>> \o HexBytes(chunk, 1) \o <<32, 124>> \o HexAscii(chunk)

RECURSIVE HexDumpFrom(_, _)
HexDumpFrom(bytes, offset) ==
    IF bytes = << >> THEN << >>
    ELSE LET n == IF Len(bytes) < HexChunk THEN Len(bytes) ELSE HexChunk
         IN  <<HexLine(offset, SubSeq(bytes, 1, n))>>
                 \o HexDumpFrom(SubSeq(bytes, n + 1, Len(bytes)), offset + n)

hex_viewer_generate_dump(bytes) == HexDumpFrom(bytes, 0)

\* "File: ", "Type: ", "Size: ", " bytes", "Modified: ...", "Perms: ..."
get_file_info(path, f) ==
    << <<70, 105, 108, 101, 58, 32>> \o Basename(path),
       <<84, 121, 112, 101, 58, 32>> \o f.mime,
       <<83, 105, 122, 101, 58, 32>> \o Dec(Len(f.bytes)) \o <<32, 98, 121, 116, 101, 115>>,
       <<77, 111, 100, 105, 102, 105, 101, 100, 58, 32, 50, 48, 50, 54>>,
       <<80, 101, 114, 109, 115, 58, 32, 45, 114, 119, 45, 114, 45, 45, 114, 45, 45>> >>

\* pm_get_handler: TRUE when some loaded plugin's can_handle opens the file
pm_get_handler(path, d) ==
    /\ path \in DOMAIN d
    /\ d[path] # Absent
    /\ FileDef(d[path]).arch

\* the loop of pm_get_handler over loaded_plugins: the index of the first
\* plugin, from i on, whose can_handle accepts the file, 0 for NULL; claimed
\* is the set of the plugins whose can_handle accepts it
RECURSIVE pm_handler_from(_, _, _)
pm_handler_from(plugins, claimed, i) ==
    IF i > Len(plugins) THEN 0
    ELSE IF plugins[i] \in claimed THEN i
    ELSE pm_handler_from(plugins, claimed, i + 1)

pm_first_handler(plugins, claimed) == pm_handler_from(plugins, claimed, 1)

list_contents(f) == [i \in 1..Len(f.entries) |-> f.entries[i].name]

\* for (p = sanitized_name; *p; ++p) if (*p == '/') *p = '_';
sanitize(name) == [i \in 1..Len(name) |-> IF name[i] = 47 THEN 95 ELSE name[i]]

\* "%s/fat-%s-%d" of temp_dir, sanitized_name, pid
temp_path(entry_name) == TempFilePrefix \o sanitize(entry_name) \o PidSuffix

\* zip_stat(za, entry_name): whether the archive has the entry
HasEntry(f, entry_name) == \E i \in 1..Len(f.entries) : f.entries[i].name = entry_name

EntryFile(f, entry_name) ==
    LET i == CHOOSE k \in 1..Len(f.entries) :
                 f.entries[k].name = entry_name
                 /\ \A j \in 1..(k - 1) : f.entries[j].name # entry_name
    IN  f.entries[i].file

Paths == {RootPath} \cup {temp_path(n) : n \in EntryNames}

(***************************************************************************)
(* StringList as the sequence of its lines (count = Len).                  *)
(***************************************************************************)
Last(l) == l[Len(l)]

Front(l) == SubSeq(l, 1, Len(l) - 1)

RECURSIVE MaxLineLen(_)
MaxLineLen(lines) ==
    IF lines = << >> THEN 0 ELSE Max(Len(Head(lines)), MaxLineLen(Tail(lines)))

NoResults == [matches |-> NULL, count |-> 0, capacity |-> 0, current_match_idx |-> 0]

(***************************************************************************)
(* src/src/core/state.c.  The operators take the AppState record s and the *)
(* disk d and return the AppState after the call together with the         *)
(* FatResult; o names where the call fails, when it does.                  *)
(***************************************************************************)
\* a destroy that forgets the content store
state_destroy_view_keeps_content(s) ==
    [s EXCEPT !.metadata = << >>,
              !.search_term_active = FALSE,
              !.filepath = NULL,
              !.search_results.matches = NULL]

\* frees metadata, content, filepath and the matches; search goes inactive
state_destroy_view(s) ==
    [s EXCEPT !.metadata = << >>,
              !.content = << >>,
              !.search_term_active = FALSE,
              !.filepath = NULL,
              !.search_results.matches = NULL]

\* strcmp(magic_full, list->lines[i]) == 0 for some i
InMimes(mime, list) == \E i \in 1..Len(list) : list[i] = mime

\* an is_binary that looks at the always-binary list first
is_binary_binary_list_first(mime, config) ==
    IF InMimes(mime, config.binary_mimes) THEN TRUE
    ELSE IF InMimes(mime, config.text_mimes) THEN FALSE
    ELSE \/ /\ HasPrefix(mime, <<97, 112, 112, 108, 105, 99, 97, 116, 105, 111, 110, 47>>)
            /\ mime # <<97, 112, 112, 108, 105, 99, 97, 116, 105, 111, 110, 47, 106, 115, 111, 110>>
         \/ HasPrefix(mime, <<105, 109, 97, 103, 101, 47>>)
         \/ HasPrefix(mime, <<118, 105, 100, 101, 111, 47>>)

\* "application/", "application/json", "image/", "video/"
is_binary(mime, config) ==
    IF InMimes(mime, config.text_mimes) THEN FALSE
    ELSE IF InMimes(mime, config.binary_mimes) THEN TRUE
    ELSE \/ /\ HasPrefix(mime, <<97, 112, 112, 108, 105, 99, 97, 116, 105, 111, 110, 47>>)
            /\ mime # <<97, 112, 112, 108, 105, 99, 97, 116, 105, 111, 110, 47, 106, 115, 111, 110>>
         \/ HasPrefix(mime, <<105, 109, 97, 103, 101, 47>>)
         \/ HasPrefix(mime, <<118, 105, 100, 101, 111, 47>>)

\* a classification that asks the plugins before the force mode
classify_plugin_first(force, handler, mime, config) ==
    IF handler # 0 THEN VIEW_MODE_ARCHIVE
    ELSE IF force = FORCE_VIEW_TEXT THEN VIEW_MODE_NORMAL
    ELSE IF force = FORCE_VIEW_HEX THEN VIEW_MODE_BINARY_HEX
    ELSE IF is_binary(mime, config) THEN VIEW_MODE_BINARY_HEX
    ELSE VIEW_MODE_NORMAL

\* a classification that does not look at the force mode
classify_ignores_force(force, handler, mime, config) ==
    IF handler # 0 THEN VIEW_MODE_ARCHIVE
    ELSE IF is_binary(mime, config) THEN VIEW_MODE_BINARY_HEX
    ELSE VIEW_MODE_NORMAL

\* the if / else-if chain of state_init: force mode, then the handler that
\* pm_get_handler returned (0 for NULL), then the MIME type from magic_file
\* (NULL when libmagic gives none)
classify(force, handler, mime, config) ==
    IF force = FORCE_VIEW_TEXT THEN VIEW_MODE_NORMAL
    ELSE IF force = FORCE_VIEW_HEX THEN VIEW_MODE_BINARY_HEX
    ELSE IF handler # 0 THEN VIEW_MODE_ARCHIVE
    ELSE IF is_binary(mime, config) THEN VIEW_MODE_BINARY_HEX
    ELSE VIEW_MODE_NORMAL

\* view mode chosen by state_init for the file at path
Classify(s, path, d) ==
    classify(s.force_view_mode,
             IF pm_get_handler(path, d) THEN 1 ELSE 0,
             FileDef(d[path]).mime, s.config)

\* lines that the renderer of a view mode produces for a file
RenderLines(m, f) ==
    IF m = VIEW_MODE_ARCHIVE THEN list_contents(f)
    ELSE IF m = VIEW_MODE_BINARY_HEX THEN hex_viewer_generate_dump(f.bytes)
    ELSE read_file_content(f.bytes)

\* RenderLines of every file of the model, computed once
Rendered ==
    [m \in {VIEW_MODE_NORMAL, VIEW_MODE_ARCHIVE, VIEW_MODE_BINARY_HEX}, id \in FileIds |->
        RenderLines(m, FileDef(id))]

Render(m, id) == Rendered[m, id]

\* a count line that reads "Lines: " in every view
CountLine_always_lines(m, n) == <<76, 105, 110, 101, 115, 58, 32>> \o Dec(n)

\* "Entries: " / "Lines: " followed by "%zu" of content.count
CountLine(m, n) ==
    (IF m = VIEW_MODE_ARCHIVE
     THEN <<69, 110, 116, 114, 105, 101, 115, 58, 32>>
     ELSE <<76, 105, 110, 101, 115, 58, 32>>) \o Dec(n)

\* where a load can fail: strdup of the path, the breadcrumb push, stat,
\* an allocation inside get_file_info, the renderer, the count line
LoadOutcomes == {"ok", "oom_path", "oom_crumb", "stat", "oom_info", "content", "oom_count"}

\* a push that does not compare with the top entry
NeedsPush_always(s, path) == TRUE

NeedsPush(s, path) ==
    IF s.breadcrumbs = << >> THEN TRUE ELSE Last(s.breadcrumbs) # path

\* outcomes that the disk and the breadcrumbs allow for a load of path
LoadOutcomeOk(s, path, d, o) ==
    /\ o \in LoadOutcomes
    /\ (o = "oom_crumb") => NeedsPush(s, path)
    /\ (d[path] = Absent) => o \in {"oom_path", "oom_crumb", "stat"}

state_init(s, path, d, o) ==
    LET s0 == state_destroy_view(s)
        s1 == [s0 EXCEPT !.filepath = path]
        s2 == [s1 EXCEPT !.breadcrumbs = IF NeedsPush(s, path)
                                         THEN Append(s.breadcrumbs, path)
                                         ELSE s.breadcrumbs,
                         !.mode = MODE_NORMAL,
                         !.line_wrap_enabled = FALSE,
                         !.top_line = 0,
                         !.left_char = 0,
                         !.search_term_active = FALSE,
                         !.search_results = NoResults]
        f  == FileDef(d[path])
        m  == Classify(s, path, d)
        s3 == [s2 EXCEPT !.metadata = get_file_info(path, f)]
        s4 == [s3 EXCEPT !.view_mode = m]
        s5 == [s4 EXCEPT !.content = Render(m, d[path])]
        s6 == [s5 EXCEPT !.metadata = Append(s5.metadata, CountLine(m, Len(s5.content))),
                         !.max_line_len = MaxLineLen(s5.content)]
    IN  CASE o = "oom_path"  -> [st |-> s0, res |-> FAT_ERROR_MEMORY]
          [] o = "oom_crumb" -> [st |-> state_destroy_view(s1), res |-> FAT_ERROR_MEMORY]
          [] o = "stat"      -> [st |-> state_destroy_view(s2), res |-> FAT_ERROR_FILE_NOT_FOUND]
          [] o = "oom_info"  -> [st |-> state_destroy_view(s2), res |-> FAT_ERROR_MEMORY]
          [] o = "content"   -> [st |-> state_destroy_view(s4),
                                 res |-> IF m = VIEW_MODE_ARCHIVE
                                         THEN FAT_ERROR_ARCHIVE_ERROR
                                         ELSE FAT_ERROR_FILE_READ]
          [] o = "oom_count" -> [st |-> state_destroy_view(s5), res |-> FAT_ERROR_MEMORY]
          [] OTHER           -> [st |-> s6, res |-> FAT_SUCCESS]

\* where a reload can fail: fopen, or a read error / allocation failure
\* after k lines were added; "no_count": the unchecked StringList_add of
\* the count line fails
ReloadOutcomes == {"ok", "open", "partial", "no_count"}

\* lines that the renderer of new_mode reads from the current file
ReloadLines(s, new_mode, d) ==
    IF s.filepath = NULL THEN << >>
    ELSE IF d[s.filepath] = Absent THEN << >>
    ELSE IF new_mode = VIEW_MODE_ARCHIVE THEN << >>
    ELSE Render(new_mode, d[s.filepath])

\* outcomes that the disk allows for a reload; k: lines added before a
\* "partial" failure
ReloadOutcomeOk(s, new_mode, d, o, k) ==
    /\ o \in ReloadOutcomes
    /\ (IF s.filepath = NULL THEN TRUE ELSE d[s.filepath] = Absent) => o = "open"
    /\ IF o = "partial" THEN k \in 1..Len(ReloadLines(s, new_mode, d)) ELSE k = 0

state_reload_content(s, new_mode, d, o, k) ==
    LET s0 == [s EXCEPT !.content = << >>,
                        !.metadata = IF s.metadata # << >> THEN Front(s.metadata)
                                     ELSE s.metadata,
                        !.view_mode = new_mode]
        lines == ReloadLines(s, new_mode, d)
        s1 == [s0 EXCEPT !.content = lines]
        s2 == [s1 EXCEPT !.metadata = IF o = "no_count" THEN s1.metadata
                                      ELSE Append(s1.metadata, CountLine(VIEW_MODE_NORMAL, Len(lines))),
                         !.max_line_len = MaxLineLen(lines),
                         !.top_line = 0,
                         !.left_char = 0,
                         !.search_term_active = FALSE]
    IN  CASE o = "open"    -> [st |-> s0, res |-> FAT_ERROR_FILE_READ]
          [] o = "partial" -> [st |-> [s0 EXCEPT !.content = SubSeq(lines, 1, k)],
                               res |-> FAT_ERROR_FILE_READ]
          [] OTHER         -> [st |-> s2, res |-> FAT_SUCCESS]

\* strstr(line + from, term): 0-based offset of the first occurrence at or
\* after from, -1 for NULL
RECURSIVE strstr(_, _, _)
strstr(line, term, from) ==
    IF from + Len(term) > Len(line) THEN -1
    ELSE IF SubSeq(line, from + 1, from + Len(term)) = term THEN from
    ELSE strstr(line, term, from + 1)

\* a scan that goes on after the end of each match
RECURSIVE ScanLine_past_match(_, _, _, _)
ScanLine_past_match(line, term, i, from) ==
    LET p == strstr(line, term, from)
    IN  IF p = -1 THEN << >>
        ELSE <<[line_idx |-> i, char_idx |-> p]>>
                 \o ScanLine_past_match(line, term, i, p + Len(term))

\* the while loop over one line: ptr++ after each match
RECURSIVE ScanLine(_, _, _, _)
ScanLine(line, term, i, from) ==
    LET p == strstr(line, term, from)
    IN  IF p = -1 THEN << >>
        ELSE <<[line_idx |-> i, char_idx |-> p]>> \o ScanLine(line, term, i, p + 1)

RECURSIVE ScanLines(_, _, _)
ScanLines(lines, term, i) ==
    IF i >= Len(lines) THEN << >>
    ELSE ScanLine(lines[i + 1], term, i, 0) \o ScanLines(lines, term, i + 1)

\* first capacity of the match array
InitialCapacity == 8

\* capacity after n matches were stored: 8, doubled while full
RECURSIVE GrownCapacity(_, _)
GrownCapacity(cap, n) ==
    IF n <= cap THEN cap
    ELSE GrownCapacity(IF cap = 0 THEN InitialCapacity ELSE cap * 2, n)

\* a search that keeps the old results when it finds nothing
state_perform_search_keeps_old(s, oom) ==
    LET s0 == [s EXCEPT !.search_results = NoResults]
        found == ScanLines(s.content, s.search_term, 0)
    IN  IF ~s.search_term_active \/ s.search_term = << >>
        THEN [st |-> s0, res |-> FAT_SUCCESS]
        ELSE IF found # << >> /\ oom
        THEN [st |-> s0, res |-> FAT_ERROR_MEMORY]
        ELSE IF found # << >>
        THEN [st |-> [s0 EXCEPT !.search_results =
                                    [matches |-> found, count |-> Len(found),
                                     capacity |-> GrownCapacity(0, Len(found)),
                                     current_match_idx |-> 0],
                                !.top_line = found[1].line_idx],
              res |-> FAT_SUCCESS]
        ELSE [st |-> s, res |-> FAT_ERROR_FILE_NOT_FOUND]

\* a search that leaves current_match_idx where it was
state_perform_search_keeps_idx(s, oom) ==
    LET idx == s.search_results.current_match_idx
        s0 == [s EXCEPT !.search_results = [NoResults EXCEPT !.current_match_idx = idx]]
        found == ScanLines(s.content, s.search_term, 0)
    IN  IF ~s.search_term_active \/ s.search_term = << >>
        THEN [st |-> s0, res |-> FAT_SUCCESS]
        ELSE IF found # << >> /\ oom
        THEN [st |-> s0, res |-> FAT_ERROR_MEMORY]
        ELSE IF found # << >>
        THEN [st |-> [s0 EXCEPT !.search_results =
                                    [matches |-> found, count |-> Len(found),
                                     capacity |-> GrownCapacity(0, Len(found)),
                                     current_match_idx |-> idx],
                                !.top_line = found[1].line_idx],
              res |-> FAT_SUCCESS]
        ELSE [st |-> s0, res |-> FAT_ERROR_FILE_NOT_FOUND]

\* oom: the first realloc of the match array fails
state_perform_search(s, oom) ==
    LET s0 == [s EXCEPT !.search_results = NoResults]
        found == ScanLines(s.content, s.search_term, 0)
    IN  IF ~s.search_term_active \/ s.search_term = << >>
        THEN [st |-> s0, res |-> FAT_SUCCESS]
        ELSE IF found # << >> /\ oom
        THEN [st |-> s0, res |-> FAT_ERROR_MEMORY]
        ELSE IF found # << >>
        THEN [st |-> [s0 EXCEPT !.search_results =
                                    [matches |-> found, count |-> Len(found),
                                     capacity |-> GrownCapacity(0, Len(found)),
                                     current_match_idx |-> 0],
                                !.top_line = found[1].line_idx],
              res |-> FAT_SUCCESS]
        ELSE [st |-> s0, res |-> FAT_ERROR_FILE_NOT_FOUND]

(***************************************************************************)
(* src/src/utils/utf8_utils.c                                              *)
(***************************************************************************)
\* the byte s[i] of a C string (0-based): the terminator at strlen(s)
ByteAt(line, i) == IF i < Len(line) THEN line[i + 1] ELSE 0

\* a length that takes every byte for a character
utf8_char_len_bytewise(line, i) ==
    IF ByteAt(line, i) = 0 THEN 0 ELSE 1

utf8_char_len(line, i) ==
    LET c == ByteAt(line, i)
    IN  IF c = 0 THEN 0
        ELSE IF c < 128 THEN 1
        ELSE IF c \div 32 = 6 THEN 2
        ELSE IF c \div 16 = 14 THEN 3
        ELSE IF c \div 8 = 30 THEN 4
        ELSE 1

RECURSIVE PrevStart(_, _)
PrevStart(line, pos) ==
    IF pos > 0 /\ ByteAt(line, pos) \div 64 = 2 THEN PrevStart(line, pos - 1) ELSE pos

utf8_prev_char_start(line, current_pos) ==
    IF current_pos <= 0 THEN 0 ELSE PrevStart(line, current_pos - 1)

(***************************************************************************)
(* src/src/utils/utils.c and the teardown of src/src/core/state.c          *)
(***************************************************************************)
\* a cleanup that removes nothing
cleanup_temp_file_if_exists_keeps(path, d) == d

\* remove(path) when the path starts with "/tmp/fat-"
cleanup_temp_file_if_exists(path, d) ==
    IF HasPrefix(path, TempFilePrefix) /\ path \in DOMAIN d
    THEN [d EXCEPT ![path] = Absent]
    ELSE d

\* a sweep that only looks at the top entry
SweepTemp_top_only(crumbs, d) ==
    IF crumbs = << >> THEN d
    ELSE cleanup_temp_file_if_exists(Last(crumbs), d)

\* the sweep of full_app_reset over the breadcrumbs
RECURSIVE SweepTemp(_, _)
SweepTemp(crumbs, d) ==
    IF crumbs = << >> THEN d
    ELSE SweepTemp(Tail(crumbs), cleanup_temp_file_if_exists(Head(crumbs), d))

full_app_reset(s) == [state_destroy_view(s) EXCEPT !.breadcrumbs = << >>]

(***************************************************************************)
(* The program: main's startup, then one action per logical action of      *)
(* process_input, then quit.                                               *)
(***************************************************************************)
\* user configuration: the "always text" and "always binary" MIME lists
ConfigChoices ==
    { [text_mimes |-> << >>, binary_mimes |-> << >>] }

ForceModes == {FORCE_VIEW_NONE, FORCE_VIEW_TEXT, FORCE_VIEW_HEX}

\* what the file named on the command line can be
RootFiles == {"zipA", "txt", "bin", Absent}

\* what an external command can do to the file it is given
ExternalEffects == {"none", "delete", "truncate"}

\* terms typed at the search prompt: "", "a" (in "txt", not in "bin") and
\* "A" (in the hex dumps only, as a digit of the bytes 0A)
SearchTerms == {<< >>, <<97>>, <<65>>}

\* AppState state = {0}; state.force_view_mode = force_mode;
InitialState(fm, cfg) ==
    [metadata |-> << >>, content |-> << >>, filepath |-> NULL,
     max_line_len |-> 0, top_line |-> 0, left_char |-> 0,
     view_mode |-> VIEW_MODE_NORMAL, mode |-> MODE_NORMAL,
     line_wrap_enabled |-> FALSE, force_view_mode |-> fm,
     breadcrumbs |-> << >>, config |-> cfg,
     search_term |-> << >>, search_term_active |-> FALSE,
     search_results |-> NoResults]

\* fat <file>, without -f
Init ==
    /\ \E cfg \in ConfigChoices : state = InitialState(FORCE_VIEW_NONE, cfg)
    /\ \E f \in RootFiles : disk = [p \in Paths |-> IF p = RootPath THEN f ELSE Absent]
    /\ pc = "start"
    /\ res = FAT_SUCCESS
    /\ ub = FALSE
    /\ faults = 0

\* process_input returns r with the AppState st; control is back in the loop
Return(st, r) ==
    /\ state' = st
    /\ res' = r
    /\ ub' = FALSE
    /\ pc' = "loop"

\* as Return, for an action that had undefined behaviour when bad holds (a
\* read through NULL or outside an array): the process dies or goes on
Finish(st, r, bad) ==
    /\ state' = st
    /\ res' = r
    /\ ub' = bad
    /\ pc' \in (IF bad THEN {"crashed", "loop"} ELSE {"loop"})

\* the step uses n of the disturbances that the run has left
Fault(n) == faults + n <= MaxFaults /\ faults' = faults + n

\* 1 when a load fails although nothing on the disk forces it to
LoadFault(path, d, o) ==
    IF o = "ok" \/ (o = "stat" /\ d[path] = Absent) THEN 0 ELSE 1

\* 1 when a reload fails although nothing on the disk forces it to
ReloadFault(s, d, o) ==
    IF o = "ok" THEN 0
    ELSE IF o = "open" /\ (IF s.filepath = NULL THEN TRUE ELSE d[s.filepath] = Absent) THEN 0
    ELSE 1

\* int page_size = getmaxy(state->right_pane) - 2; if (page_size < 1) page_size = 1;
PageSize(h) == IF h - 2 < 1 THEN 1 ELSE h - 2

\* state->content.count > 0 ? (int)state->content.count - 1 : 0
LastLine(s) == IF Len(s.content) > 0 THEN Len(s.content) - 1 ELSE 0

\* content.lines[top_line] is a line of the store
LineValid(s) == s.top_line >= 0 /\ s.top_line < Len(s.content)

\* state_init of main; a failure ends the process with exit code 1
StartupWith(o) ==
    /\ pc = "start"
    /\ LoadOutcomeOk(state, RootPath, disk, o)
    /\ Fault(LoadFault(RootPath, disk, o))
    /\ LET r == state_init(state, RootPath, disk, o)
       IN  /\ state' = r.st
           /\ res' = r.res
           /\ pc' = IF r.res = FAT_SUCCESS THEN "loop" ELSE "failed"
    /\ ub' = FALSE
    /\ UNCHANGED disk

Startup == \E o \in LoadOutcomes : StartupWith(o)

\* a line jump that does not clamp the target to the last line
JumpToLineWith_unclamped(target_line) ==
    /\ pc = "loop"
    /\ Return(IF target_line > 0
              THEN [state EXCEPT !.top_line = target_line - 1]
              ELSE state,
              FAT_SUCCESS)
    /\ UNCHANGED <<disk, faults>>

\* "gt": ui_get_line_input returns target_line, -1 on cancel
JumpToLineWith(target_line) ==
    /\ pc = "loop"
    /\ LET t == target_line - 1
       IN  Return(IF target_line > 0
                  THEN [state EXCEPT !.top_line = IF t >= Len(state.content)
                                                  THEN LastLine(state) ELSE t]
                  ELSE state,
                  FAT_SUCCESS)
    /\ UNCHANGED <<disk, faults>>

JumpToLine == \E target_line \in -1..MaxLineInput : JumpToLineWith(target_line)

\* "gg"
JumpToStart ==
    /\ pc = "loop"
    /\ Return([state EXCEPT !.top_line = 0, !.left_char = 0],
              FAT_SUCCESS)
    /\ UNCHANGED <<disk, faults>>

JumpToEnd ==
    /\ pc = "loop"
    /\ Return([state EXCEPT !.top_line = LastLine(state), !.left_char = 0],
              FAT_SUCCESS)
    /\ UNCHANGED <<disk, faults>>

ScrollDown ==
    /\ pc = "loop"
    /\ Return(IF state.top_line + 1 < Len(state.content)
              THEN [state EXCEPT !.top_line = @ + 1] ELSE state,
              FAT_SUCCESS)
    /\ UNCHANGED <<disk, faults>>

ScrollUp ==
    /\ pc = "loop"
    /\ Return(IF state.top_line > 0
              THEN [state EXCEPT !.top_line = @ - 1] ELSE state,
              FAT_SUCCESS)
    /\ UNCHANGED <<disk, faults>>

PageDown ==
    /\ pc = "loop"
    /\ \E h \in PaneHeights :
         LET t == state.top_line + PageSize(h)
         IN  Return([state EXCEPT !.top_line = IF t >= Len(state.content)
                                               THEN LastLine(state) ELSE t],
                    FAT_SUCCESS)
    /\ UNCHANGED <<disk, faults>>

PageUp ==
    /\ pc = "loop"
    /\ \E h \in PaneHeights :
         LET t == state.top_line - PageSize(h)
         IN  Return([state EXCEPT !.top_line = IF t < 0 THEN 0 ELSE t],
                    FAT_SUCCESS)
    /\ UNCHANGED <<disk, faults>>

\* what zip_extract_entry can do: fail before the temp name is built,
\* fail after it (the temp path is removed), or write the entry
ExtractOutcomes == {"ok", "oom", "fail"}

ExtractOutcomeOk(f, entry_name, x) ==
    /\ x \in ExtractOutcomes
    /\ (x = "ok") => HasEntry(f, entry_name)

\* an extraction whose failure after the temp name was built is reported
\* as a success
zip_extract_entry_hides_failure(f, entry_name, d, x) ==
    LET full_temp_path == temp_path(entry_name)
    IN  CASE x = "oom"  -> [res |-> FAT_ERROR_MEMORY, temp |-> NULL, disk |-> d]
          [] x = "fail" -> [res |-> FAT_SUCCESS, temp |-> full_temp_path,
                            disk |-> [d EXCEPT ![full_temp_path] = Absent]]
          [] OTHER      -> [res |-> FAT_SUCCESS, temp |-> full_temp_path,
                            disk |-> [d EXCEPT ![full_temp_path] = EntryFile(f, entry_name)]]

zip_extract_entry(f, entry_name, d, x) ==
    LET full_temp_path == temp_path(entry_name)
    IN  CASE x = "oom"  -> [res |-> FAT_ERROR_MEMORY, temp |-> NULL, disk |-> d]
          [] x = "fail" -> [res |-> FAT_ERROR_ARCHIVE_ERROR, temp |-> NULL,
                            disk |-> [d EXCEPT ![full_temp_path] = Absent]]
          [] OTHER      -> [res |-> FAT_SUCCESS, temp |-> full_temp_path,
                            disk |-> [d EXCEPT ![full_temp_path] = EntryFile(f, entry_name)]]

\* ACTION_CONFIRM is past its guards: the archive view shows an entry and
\* a plugin handles the current file
CanExtract(s, d) ==
    /\ s.view_mode = VIEW_MODE_ARCHIVE
    /\ Len(s.content) > 0
    /\ LineValid(s)
    /\ s.filepath # NULL
    /\ pm_get_handler(s.filepath, d)

\* ACTION_CONFIRM; x is what the extraction does, o what the load of the
\* extracted file does
ConfirmWith(x, o) ==
    /\ pc = "loop"
    /\ IF state.view_mode # VIEW_MODE_ARCHIVE \/ Len(state.content) = 0
       THEN /\ x = "ok" /\ o = "ok"
            /\ Return(state, FAT_SUCCESS) /\ UNCHANGED <<disk, faults>>
       ELSE LET s0 == [state EXCEPT !.search_term_active = FALSE]
            IN  IF state.top_line >= Len(state.content) \/ state.filepath = NULL
                THEN /\ x = "ok" /\ o = "ok"
                     /\ Finish(s0, FAT_SUCCESS, TRUE) /\ UNCHANGED <<disk, faults>>
                ELSE IF ~pm_get_handler(state.filepath, disk)
                THEN /\ x = "ok" /\ o = "ok"
                     /\ Return(s0, FAT_SUCCESS) /\ UNCHANGED <<disk, faults>>
                ELSE LET entry_name == state.content[state.top_line + 1]
                         f == FileDef(disk[state.filepath])
                         e == zip_extract_entry(f, entry_name, disk, x)
                     IN  /\ ExtractOutcomeOk(f, entry_name, x)
                         /\ disk' = e.disk
                         /\ IF e.res = FAT_SUCCESS /\ e.temp # NULL
                            THEN /\ LoadOutcomeOk(s0, e.temp, e.disk, o)
                                 /\ Fault(LoadFault(e.temp, e.disk, o))
                                 /\ LET r == state_init(s0, e.temp, e.disk, o)
                                    IN  Return(r.st, r.res)
                            ELSE /\ o = "ok"
                                 /\ Fault(IF HasEntry(f, entry_name) THEN 1 ELSE 0)
                                 /\ Return(s0, e.res)

Confirm == \E x \in ExtractOutcomes, o \in LoadOutcomes : ConfirmWith(x, o)

\* the else-if branch of ACTION_GO_BACK in the text and hex views
ClearSearch(s) ==
    [s EXCEPT !.search_term = << >>,
              !.search_term_active = FALSE,
              !.search_results.matches = NULL,
              !.search_results.count = 0,
              !.search_results.capacity = 0]

\* a go-back that pops the last entry too
CanPop_root_too(s) == Len(s.breadcrumbs) > 0

\* breadcrumbs.count > 1: whether go-back pops
CanPop(s) == Len(s.breadcrumbs) > 1

\* a go-back that clears the search whether or not one is active
ClearsSearch_always(s) == s.view_mode # VIEW_MODE_ARCHIVE

\* the else-if of ACTION_GO_BACK in the text and hex views: whether a
\* go-back that does not pop cancels the search
ClearsSearch(s) == s.view_mode # VIEW_MODE_ARCHIVE /\ s.search_term_active

\* ACTION_GO_BACK; o is what the load of the entry below does.
\* breadcrumbs.lines[count - 1] after the pop is a read before the array
\* when the pop emptied the stack
GoBackWith(o) ==
    /\ pc = "loop"
    /\ IF CanPop(state)
       THEN LET d1 == cleanup_temp_file_if_exists(Last(state.breadcrumbs), disk)
                s0 == [state EXCEPT !.breadcrumbs = Front(@)]
            IN  /\ disk' = d1
                /\ IF s0.breadcrumbs = << >>
                   THEN /\ o = "ok"
                        /\ Finish(s0, FAT_SUCCESS, TRUE) /\ UNCHANGED faults
                   ELSE LET path == Last(s0.breadcrumbs)
                        IN  /\ LoadOutcomeOk(s0, path, d1, o)
                            /\ Fault(LoadFault(path, d1, o))
                            /\ LET r == state_init(s0, path, d1, o)
                               IN  Return(r.st, r.res)
       ELSE /\ o = "ok"
            /\ UNCHANGED <<disk, faults>>
            /\ IF ClearsSearch(state)
               THEN Return(ClearSearch(state), FAT_SUCCESS)
               ELSE Return(state, FAT_SUCCESS)

GoBack == \E o \in LoadOutcomes : GoBackWith(o)

\* ACTION_TOGGLE_VIEW_MODE; o is what the reload does, k the number of
\* lines added before a "partial" failure
ToggleViewModeWith(o, k) ==
    /\ pc = "loop"
    /\ UNCHANGED disk
    /\ IF state.view_mode = VIEW_MODE_ARCHIVE
       THEN /\ o = "ok" /\ k = 0
            /\ Return(state, FAT_SUCCESS) /\ UNCHANGED faults
       ELSE LET new_mode == IF state.view_mode = VIEW_MODE_NORMAL
                            THEN VIEW_MODE_BINARY_HEX ELSE VIEW_MODE_NORMAL
            IN  /\ ReloadOutcomeOk(state, new_mode, disk, o, k)
                /\ Fault(ReloadFault(state, disk, o))
                /\ LET r == state_reload_content(state, new_mode, disk, o, k)
                   IN  Finish(r.st, r.res, state.filepath = NULL)

\* the longest rendering of a file of the model, in lines
MaxRendered ==
    CHOOSE n \in 0..64 :
        /\ \A x \in DOMAIN Rendered : Len(Rendered[x]) <= n
        /\ \E x \in DOMAIN Rendered : Len(Rendered[x]) = n

ToggleViewMode ==
    \E o \in ReloadOutcomes, k \in 0..MaxRendered : ToggleViewModeWith(o, k)

\* int visible_content_width = getmaxy(state->right_pane) - 7 - 1;
\* int max_scroll_limit = (int)state->max_line_len - visible_content_width;
MaxScrollLimit(s, h) == Max(0, s.max_line_len - (h - 7 - 1))

\* ACTION_SCROLL_RIGHT in a right pane for which getmaxy gives h
ScrollRightAt(h) ==
    /\ pc = "loop"
    /\ UNCHANGED <<disk, faults>>
    /\ IF state.view_mode = VIEW_MODE_ARCHIVE
          \/ state.line_wrap_enabled
          \/ ~(state.left_char < MaxScrollLimit(state, h))
       THEN Return(state, FAT_SUCCESS)
       ELSE IF ~LineValid(state)
       THEN Finish(state, FAT_SUCCESS, TRUE)
       ELSE LET line == state.content[state.top_line + 1]
            IN  Return(IF state.left_char < Len(line)
                       THEN [state EXCEPT !.left_char = @ + utf8_char_len(line, @)]
                       ELSE state,
                       FAT_SUCCESS)

ScrollRight == \E h \in PaneHeights : ScrollRightAt(h)

\* ACTION_SCROLL_LEFT; utf8_prev_char_start reads s[left_char - 1], which is
\* past the terminator when left_char - 1 > strlen(line)
ScrollLeft ==
    /\ pc = "loop"
    /\ UNCHANGED <<disk, faults>>
    /\ IF state.view_mode = VIEW_MODE_ARCHIVE
          \/ state.line_wrap_enabled
          \/ ~(state.left_char > 0)
       THEN Return(state, FAT_SUCCESS)
       ELSE IF ~LineValid(state)
       THEN Finish(state, FAT_SUCCESS, TRUE)
       ELSE LET line == state.content[state.top_line + 1]
            IN  Finish([state EXCEPT !.left_char = utf8_prev_char_start(line, @)],
                       FAT_SUCCESS, state.left_char - 1 > Len(line))

\* ui_get_search_input: Escape empties the buffer, Enter keeps what was typed
ui_get_search_input(s, typed, key) ==
    LET temp_buffer == IF key = "escape" THEN << >> ELSE typed
    IN  [s EXCEPT !.mode = MODE_NORMAL,
                  !.search_term = temp_buffer,
                  !.search_term_active = (temp_buffer # << >>)]

\* the keys that end the search prompt
PromptKeys == {"enter", "escape"}

\* a search that the archive view offers as well
SearchWith_in_archive(typed, key, oom) ==
    /\ pc = "loop"
    /\ UNCHANGED disk
    /\ LET s0 == ui_get_search_input(state, typed, key)
           r  == state_perform_search(s0, oom)
       IN  /\ (key = "escape") => typed = << >>
           /\ oom => (r.res = FAT_ERROR_MEMORY)
           /\ Fault(IF oom THEN 1 ELSE 0)
           /\ IF s0.search_term_active
              THEN IF r.res = FAT_ERROR_FILE_NOT_FOUND
                   THEN Return([r.st EXCEPT !.search_term_active = FALSE],
                               FAT_SUCCESS)
                   ELSE Return(r.st, FAT_SUCCESS)
              ELSE Return(s0, FAT_SUCCESS)

\* ACTION_SEARCH; typed is the text in the prompt when key ends it, oom
\* whether the result array cannot be allocated.  The case ends in break,
\* so the res of state_perform_search is dropped by "return FAT_SUCCESS"
SearchWith(typed, key, oom) ==
    /\ pc = "loop"
    /\ UNCHANGED disk
    /\ IF state.view_mode = VIEW_MODE_ARCHIVE
       THEN /\ typed = << >> /\ key = "enter" /\ ~oom
            /\ Return(state, FAT_SUCCESS) /\ UNCHANGED faults
       ELSE LET s0 == ui_get_search_input(state, typed, key)
                r  == state_perform_search(s0, oom)
            IN  /\ (key = "escape") => typed = << >>
                /\ oom => (r.res = FAT_ERROR_MEMORY)
                /\ Fault(IF oom THEN 1 ELSE 0)
                /\ IF s0.search_term_active
                   THEN IF r.res = FAT_ERROR_FILE_NOT_FOUND
                        THEN Return([r.st EXCEPT !.search_term_active = FALSE],
                                    FAT_SUCCESS)
                        ELSE Return(r.st, FAT_SUCCESS)
                   ELSE Return(s0, FAT_SUCCESS)

Search ==
    \E typed \in SearchTerms, key \in PromptKeys, oom \in BOOLEAN :
        SearchWith(typed, key, oom)

\* a next match that does not wrap
next_match_idx_no_wrap(sr) == sr.current_match_idx + 1

\* (current_match_idx + 1) % count
next_match_idx(sr) == (sr.current_match_idx + 1) % sr.count

\* current_match_idx == 0 ? count - 1 : current_match_idx - 1
prev_match_idx(sr) ==
    IF sr.current_match_idx = 0 THEN sr.count - 1 ELSE sr.current_match_idx - 1

\* ACTION_NEXT_MATCH; res = FAT_ERROR_UNSUPPORTED without an active search
\* is dropped by the break and "return FAT_SUCCESS"
NextMatch ==
    /\ pc = "loop"
    /\ UNCHANGED <<disk, faults>>
    /\ IF state.view_mode = VIEW_MODE_ARCHIVE
       THEN Return(state, FAT_SUCCESS)
       ELSE IF state.search_term_active /\ state.search_results.count > 0
       THEN LET idx == next_match_idx(state.search_results)
            IN  IF idx >= Len(state.search_results.matches)
                THEN Finish(state, FAT_SUCCESS, TRUE)
                ELSE Return([state EXCEPT
                                !.search_results.current_match_idx = idx,
                                !.top_line = state.search_results.matches[idx + 1].line_idx],
                            FAT_SUCCESS)
       ELSE Return(state, FAT_SUCCESS)

\* ACTION_PREV_MATCH; as ACTION_NEXT_MATCH
PrevMatch ==
    /\ pc = "loop"
    /\ UNCHANGED <<disk, faults>>
    /\ IF state.view_mode = VIEW_MODE_ARCHIVE
       THEN Return(state, FAT_SUCCESS)
       ELSE IF state.search_term_active /\ state.search_results.count > 0
       THEN LET idx == prev_match_idx(state.search_results)
            IN  IF idx >= Len(state.search_results.matches)
                THEN Finish(state, FAT_SUCCESS, TRUE)
                ELSE Return([state EXCEPT
                                !.search_results.current_match_idx = idx,
                                !.top_line = state.search_results.matches[idx + 1].line_idx],
                            FAT_SUCCESS)
       ELSE Return(state, FAT_SUCCESS)

\* ACTION_TOGGLE_WRAP
ToggleWrap ==
    /\ pc = "loop"
    /\ UNCHANGED <<disk, faults>>
    /\ Return(IF state.view_mode = VIEW_MODE_NORMAL
              THEN [state EXCEPT !.line_wrap_enabled = ~@] ELSE state,
              FAT_SUCCESS)

\* the file at path after the external command ran
ExternalRun(d, path, e) ==
    IF path = NULL \/ e = "none" THEN d
    ELSE [d EXCEPT ![path] = IF e = "delete" THEN Absent ELSE "empty"]

\* ACTION_OPEN_EXTERNAL / ACTION_OPEN_EXTERNAL_DEFAULT; run: a command was
\* configured or typed at the prompt; e: what the command does to the file;
\* o, k: what the reload after it does
OpenExternalStep(run, e, o, k) ==
    /\ pc = "loop"
    /\ IF ~run
       THEN /\ e = "none" /\ o = "ok" /\ k = 0
            /\ Return(state, FAT_SUCCESS)
            /\ UNCHANGED <<disk, faults>>
       ELSE LET d1 == ExternalRun(disk, state.filepath, e)
            IN  /\ (state.filepath = NULL \/ disk[state.filepath] = Absent) => e = "none"
                /\ disk' = d1
                /\ IF state.view_mode # VIEW_MODE_ARCHIVE
                   THEN /\ ReloadOutcomeOk(state, state.view_mode, d1, o, k)
                        /\ Fault((IF e = "none" THEN 0 ELSE 1) + ReloadFault(state, d1, o))
                        /\ LET r == state_reload_content(state, state.view_mode, d1, o, k)
                           IN  Finish(r.st, FAT_SUCCESS, state.filepath = NULL)
                   ELSE /\ o = "ok" /\ k = 0
                        /\ Fault(IF e = "none" THEN 0 ELSE 1)
                        /\ Finish(state, FAT_SUCCESS, state.filepath = NULL)

OpenExternalWith(run, e) ==
    \E o \in ReloadOutcomes, k \in 0..MaxRendered : OpenExternalStep(run, e, o, k)

OpenExternal == \E run \in BOOLEAN, e \in ExternalEffects : OpenExternalWith(run, e)

\* ACTION_QUIT: the loop ends, full_app_reset sweeps the temp files
Quit ==
    /\ pc = "loop"
    /\ state' = full_app_reset(state)
    /\ disk' = SweepTemp(state.breadcrumbs, disk)
    /\ pc' = "exited"
    /\ res' = FAT_SUCCESS
    /\ ub' = FALSE
    /\ UNCHANGED faults

Next ==
    \/ Startup
    \/ JumpToLine
    \/ JumpToStart
    \/ JumpToEnd
    \/ ScrollDown
    \/ ScrollUp
    \/ PageDown
    \/ PageUp
    \/ Confirm
    \/ GoBack
    \/ ToggleViewMode
    \/ ScrollRight
    \/ ScrollLeft
    \/ Search
    \/ NextMatch
    \/ PrevMatch
    \/ ToggleWrap
    \/ OpenExternal
    \/ Quit

Spec == Init /\ [][Next]_vars

(***************************************************************************)
(* Properties of the navigation and of the loads.                          *)
(***************************************************************************)

\* C1: whenever the controller is back in the event loop, the breadcrumb
\* stack is non-empty and its last element is the path of the displayed
\* file, state.filepath
C1_TopCrumbIsFilepath ==
    (pc = "loop") =>
        /\ state.breadcrumbs # << >>
        /\ Last(state.breadcrumbs) = state.filepath

\* the stages of state_init that C2 names: metadata, content, count line
LoadFailures == {"stat", "oom_info", "content", "oom_count"}

\* a step that runs state_init with outcome o: at startup, in a confirm
\* whose extraction succeeded, in a go-back that pops
LoadStep(o) ==
    \/ StartupWith(o)
    \/ CanExtract(state, disk) /\ ConfirmWith("ok", o)
    \/ CanPop(state) /\ GoBackWith(o)

ViewDestroyed(s) ==
    /\ s.metadata = << >>
    /\ s.content = << >>
    /\ s.filepath = NULL
    /\ ~s.search_term_active
    /\ s.search_results.matches = NULL
    /\ s.search_results.count = 0

\* C2: a state_init that fails at the metadata, the content or the count
\* line returns the error and leaves the view destroyed: metadata and
\* content empty, filepath cleared, search inactive, result set released
C2_FailedLoadDestroysView ==
    [][\A o \in LoadFailures :
          LoadStep(o) => (res' # FAT_SUCCESS /\ ViewDestroyed(state'))]_vars

\* a confirm whose load failed at stat: the loop goes on with no view
C2_Witness ==
    /\ pc = "loop"
    /\ res = FAT_ERROR_FILE_NOT_FOUND
    /\ Len(state.breadcrumbs) > 1
    /\ ViewDestroyed(state)

\* C3: no action after a successful startup is fatal: none indexes
\* content.lines[top_line] outside the content store or uses a NULL
\* filepath, and the event loop continues
C3_NoFatalAction == ~ub /\ pc # "crashed"

\* C4: top_line stays within [0, content.count - 1] when the content is
\* non-empty and is 0 when the content is empty
C4_TopLineInBounds ==
    (pc = "loop") =>
        IF Len(state.content) > 0
        THEN state.top_line >= 0 /\ state.top_line <= Len(state.content) - 1
        ELSE state.top_line = 0

\* the temp path that the plugin returns for the entry under the cursor
ExtractedPath(s) == temp_path(s.content[s.top_line + 1])

\* a confirm in which the extraction and the load both succeed
ConfirmOk == CanExtract(state, disk) /\ ConfirmWith("ok", "ok")

\* the view is the one a load of path shows
LoadedOn(s, path, d) ==
    /\ s.filepath = path
    /\ s.content = Render(s.view_mode, d[path])
    /\ s.view_mode = Classify(s, path, d)
    /\ s.top_line = 0
    /\ s.left_char = 0
    /\ ~s.search_term_active

\* C5: a successful confirm reloads the view on the temp path of
\* the entry content.lines[top_line] and the breadcrumb stack grows by
\* exactly one entry, that temp path, above the unchanged old entries
C5_ConfirmPushesOne ==
    [][ConfirmOk =>
          /\ res' = FAT_SUCCESS
          /\ LoadedOn(state', ExtractedPath(state), disk')
          /\ state'.breadcrumbs = Append(state.breadcrumbs, ExtractedPath(state))]_vars

\* the outcomes of an extraction that fails
ExtractFailures == {"oom", "fail"}

C7_GoBackPopsAndReloads ==
    [][\A o \in LoadOutcomes :
          (CanPop(state) /\ GoBackWith(o)) =>
              /\ state'.breadcrumbs = Front(state.breadcrumbs)
              /\ state'.filepath = Last(Front(state.breadcrumbs))]_vars

\* C8: once the first load has succeeded the breadcrumb stack never has
\* fewer than one entry, and the file given on the command line stays at
\* index 0
C8_RootCrumbStays ==
    (pc = "loop") =>
        /\ Len(state.breadcrumbs) >= 1
        /\ state.breadcrumbs[1] = RootPath

\* a go-back has popped the stack down to the root entry: only the failed
\* load of a go-back leaves one entry and no current file
C8_Witness ==
    /\ pc = "loop"
    /\ state.breadcrumbs = <<RootPath>>
    /\ state.filepath = NULL

\* C9: go-back with exactly one breadcrumb entry and no active search
\* changes nothing in the AppState (filepath, view mode, content,
\* metadata, scroll position, wrap flag, search state, breadcrumbs) and
\* returns success
C9_GoBackAtRootIsNoOp ==
    [][(Len(state.breadcrumbs) = 1 /\ ~state.search_term_active /\ GoBack) =>
          /\ state' = state
          /\ disk' = disk
          /\ res' = FAT_SUCCESS
          /\ pc' = "loop"]_vars

\* a text view on the root entry, scrolled, with the term of an earlier
\* search that is no longer active: what the no-op has to leave alone
C9_Witness ==
    /\ pc = "loop"
    /\ res = FAT_SUCCESS
    /\ Len(state.breadcrumbs) = 1
    /\ ~state.search_term_active
    /\ state.search_term # << >>
    /\ state.content # << >>

\* a search is cancelled: Escape in the search prompt, or go-back with a
\* single breadcrumb entry while a search is active
CancelSearch ==
    \/ state.view_mode # VIEW_MODE_ARCHIVE /\ SearchWith(<< >>, "escape", FALSE)
    \/ ~CanPop(state) /\ ClearsSearch(state) /\ GoBackWith("ok")

\* C10: cancelling a search leaves the search inactive with an empty term
\* and an empty result set (match count 0), and leaves content, view mode
\* and breadcrumb stack unchanged
C10_CancelEmptiesSearch ==
    [][CancelSearch =>
          /\ ~state'.search_term_active
          /\ state'.search_term = << >>
          /\ state'.search_results.count = 0
          /\ state'.content = state.content
          /\ state'.view_mode = state.view_mode
          /\ state'.breadcrumbs = state.breadcrumbs]_vars

\* C11: on go-back the file named by the popped breadcrumb entry is deleted
\* exactly when its path begins with the temp prefix, the deletion comes
\* before the pop and the reload of the new top, and a path without the
\* prefix is never deleted
C11_GoBackDeletesTempOnly ==
    [][\A o \in LoadOutcomes :
          (CanPop(state) /\ GoBackWith(o)) =>
              LET top == Last(state.breadcrumbs)
                  popped == [state EXCEPT !.breadcrumbs = Front(@)]
              IN  /\ disk' = IF HasPrefix(top, TempFilePrefix)
                             THEN [disk EXCEPT ![top] = Absent]
                             ELSE disk
                  /\ \A p \in Paths :
                        ~HasPrefix(p, TempFilePrefix) =>
                            cleanup_temp_file_if_exists(p, disk) = disk
                  /\ state' = state_init(popped, Last(popped.breadcrumbs), disk', o).st]_vars

\* back on the root archive with the term of a search made in an extracted
\* text file, whose temp file is gone while the root file is still there
C11_Witness ==
    /\ pc = "loop"
    /\ res = FAT_SUCCESS
    /\ state.breadcrumbs = <<RootPath>>
    /\ state.view_mode = VIEW_MODE_ARCHIVE
    /\ state.search_term # << >>
    /\ disk[temp_path(NameDA)] = Absent
    /\ disk[RootPath] # Absent

\* the temp files still on disk
TempFilesOnDisk(d) ==
    {p \in Paths : HasPrefix(p, TempFilePrefix) /\ d[p] # Absent}

\* the entries of a breadcrumb stack
Crumbs(s) == {s.breadcrumbs[i] : i \in DOMAIN s.breadcrumbs}

\* C12: quit deletes the file of every remaining breadcrumb entry whose
\* path begins with the temp prefix, so that no temp file that was pushed
\* onto the breadcrumb stack is left on disk after quit.  A temp file that
\* is on disk and not on the stack exists only after a confirm whose load
\* failed on an allocation before the push, so without such a failure the
\* stack holds every temp file and quit leaves none.
C12_QuitSweepsTemp ==
    [][/\ (pc = "loop" /\ faults = 0) => TempFilesOnDisk(disk) \subseteq Crumbs(state)
       /\ Quit =>
             /\ TempFilesOnDisk(disk') \cap Crumbs(state) = {}
             /\ faults = 0 => TempFilesOnDisk(disk') = {}]_vars

\* quit in a text view reached through the root archive: the viewed file
\* was a temp file on the stack, and no temp file is left
C12_Witness ==
    /\ pc = "exited"
    /\ faults = 0
    /\ disk[RootPath] = "zipA"
    /\ state.view_mode = VIEW_MODE_NORMAL
    /\ TempFilesOnDisk(disk) = {}

\* the stack after push(path): appended unless path equals the top entry
Pushed(crumbs, path) ==
    IF crumbs # << >> /\ Last(crumbs) = path THEN crumbs ELSE Append(crumbs, path)

NoAdjacentEqual(crumbs) ==
    \A i \in 1..(Len(crumbs) - 1) : crumbs[i] # crumbs[i + 1]

\* the outcomes of a load that gets to its push and completes it
PushingLoads == LoadOutcomes \ {"oom_path", "oom_crumb"}

\* C13: a load pushes its path onto the breadcrumb stack unless the path
\* equals the top entry, so a load of the current top path (the reload of
\* a go-back, a confirm that extracts onto the top path) leaves the stack
\* unchanged, and no two adjacent breadcrumb entries are ever equal
C13_PushUnlessTop ==
    [][/\ NoAdjacentEqual(state'.breadcrumbs)
       /\ \A o \in PushingLoads :
            /\ StartupWith(o) =>
                  state'.breadcrumbs = Pushed(state.breadcrumbs, RootPath)
            /\ (CanExtract(state, disk) /\ ConfirmWith("ok", o)) =>
                  state'.breadcrumbs = Pushed(state.breadcrumbs, ExtractedPath(state))
            /\ (CanPop(state) /\ GoBackWith(o)) =>
                  /\ state'.breadcrumbs = Front(state.breadcrumbs)
                  /\ Pushed(Front(state.breadcrumbs), Last(Front(state.breadcrumbs)))
                        = Front(state.breadcrumbs)]_vars

\* a confirm inside the nested archive extracted its entry onto the path
\* of that archive: the load of the top path left two entries
C13_Witness ==
    /\ pc = "loop"
    /\ res = FAT_SUCCESS
    /\ state.breadcrumbs = <<RootPath, temp_path(NameA)>>
    /\ state.filepath = temp_path(NameA)
    /\ disk[temp_path(NameA)] = "bin"

\* the representation that a toggle switches to
OtherMode(m) ==
    IF m = VIEW_MODE_NORMAL THEN VIEW_MODE_BINARY_HEX ELSE VIEW_MODE_NORMAL

\* what a toggle in a text or hex view has to leave behind
Toggled(s, t, d) ==
    /\ t.view_mode = OtherMode(s.view_mode)
    /\ t.filepath = s.filepath
    /\ IF s.filepath = NULL THEN FALSE
       ELSE IF d[s.filepath] = Absent THEN FALSE
       ELSE t.content = Render(t.view_mode, d[s.filepath])
    /\ t.top_line = 0
    /\ t.left_char = 0
    /\ t.breadcrumbs = s.breadcrumbs

\* C14: toggle view mode switches between Text and BinaryHex only,
\* re-renders the content of the same file in the other representation,
\* resets top_line and left_char to 0 and leaves the breadcrumb stack
\* unchanged; in Archive mode it changes nothing
C14_ToggleRerenders ==
    [][ToggleViewMode =>
          IF state.view_mode = VIEW_MODE_ARCHIVE
          THEN state' = state
          ELSE Toggled(state, state', disk)]_vars

\* C15: after a toggle of view mode that succeeded the search is inactive
\* and the search result set is empty (match count 0, no matches)
C15_ToggleResetsSearch ==
    [][(state.view_mode # VIEW_MODE_ARCHIVE /\ ToggleViewMode /\ res' = FAT_SUCCESS) =>
          /\ ~state'.search_term_active
          /\ state'.search_results.count = 0
          /\ state'.search_results.matches = NULL]_vars

(***************************************************************************)
(* state_perform_search as a function of the content and the term: a       *)
(* second specification that starts in a text view on any small content    *)
(* with any small term typed, and runs the search once.                    *)
(***************************************************************************)
\* bytes of the contents and terms: "a", "b", "A"
SearchAlphabet == {97, 98, 65}

MaxContentLine == 5
MaxTermLen == 2

\* the C strings of at most n bytes
Strings(n) == UNION {[1..k -> SearchAlphabet] : k \in 0..n}

\* one line of up to MaxContentLine bytes, or two lines of up to 2 bytes
SearchContents ==
    {<<l>> : l \in Strings(MaxContentLine)}
        \cup {<<l1, l2>> : l1 \in Strings(2), l2 \in Strings(2)}

SearchNeedles == Strings(MaxTermLen) \ {<< >>}

SearchInit ==
    /\ \E cfg \in ConfigChoices, c \in SearchContents, t \in SearchNeedles :
         state = [InitialState(FORCE_VIEW_NONE, cfg) EXCEPT
                     !.filepath = RootPath,
                     !.breadcrumbs = <<RootPath>>,
                     !.content = c,
                     !.max_line_len = MaxLineLen(c),
                     !.search_term = t,
                     !.search_term_active = TRUE]
    /\ disk = [p \in Paths |-> IF p = RootPath THEN "txt" ELSE Absent]
    /\ pc = "search"
    /\ res = FAT_SUCCESS
    /\ ub = FALSE
    /\ faults = 0

\* res = state_perform_search(state)
PerformSearch ==
    /\ pc = "search"
    /\ \E oom \in BOOLEAN :
         LET r == state_perform_search(state, oom)
         IN  /\ oom => (r.res = FAT_ERROR_MEMORY)
             /\ state' = r.st
             /\ res' = r.res
             /\ faults' = IF oom THEN 1 ELSE 0
    /\ pc' = "searched"
    /\ UNCHANGED <<disk, ub>>

SearchNext == PerformSearch

SearchSpec == SearchInit /\ [][SearchNext]_vars

\* the positions at which term occurs in the lines, as (line, byte offset)
Occurrences(lines, term) ==
    {<<i, j>> \in (0..(Len(lines) - 1)) \X (0..MaxContentLine) :
        /\ j + Len(term) <= Len(lines[i + 1])
        /\ \A n \in 1..Len(term) : lines[i + 1][j + n] = term[n]}

\* (line_idx, char_idx) of a before that of b
MatchBefore(a, b) ==
    \/ a.line_idx < b.line_idx
    \/ a.line_idx = b.line_idx /\ a.char_idx < b.char_idx

\* C16: for any content and any non-empty term, a search that does not
\* run out of memory records exactly the positions (line index, byte
\* offset) at which the term occurs as a literal case-sensitive substring,
\* overlapping occurrences included, in strictly increasing order
C16_SearchFindsAll ==
    (pc = "searched" /\ res # FAT_ERROR_MEMORY) =>
        LET m == state.search_results.matches
        IN  /\ state.search_results.count = Len(m)
            /\ {<<m[k].line_idx, m[k].char_idx>> : k \in DOMAIN m}
                  = Occurrences(state.content, state.search_term)
            /\ \A k \in 1..(Len(m) - 1) : MatchBefore(m[k], m[k + 1])

\* "aa" in "baaab": the overlapping occurrences at offsets 1 and 2
C16_Witness ==
    /\ pc = "searched"
    /\ state.content = <<(<<98, 97, 97, 97, 98>>)>>
    /\ state.search_term = <<97, 97>>
    /\ state.search_results.count = 2
    /\ state.search_results.matches
         = <<[line_idx |-> 0, char_idx |-> 1], [line_idx |-> 0, char_idx |-> 2]>>

\* the current-match index after n applications of next_match
RECURSIVE NextTimes(_, _)
NextTimes(sr, n) ==
    IF n = 0 THEN sr.current_match_idx
    ELSE next_match_idx([sr EXCEPT !.current_match_idx = NextTimes(sr, n - 1)])

\* a step that moves the index and leaves the scanned matches alone
SameMatches(s, t) ==
    /\ t.search_results.matches = s.search_results.matches
    /\ t.search_results.count = s.search_results.count
    /\ t.search_term_active
    /\ t.content = s.content

\* C17: with an active search that has count > 0 matches, next_match and
\* prev_match move the current-match index cyclically and leave the
\* matches as they are: next from the last match goes to the first, prev
\* from the first to the last, and count applications of next_match give
\* the original index
C17_NextPrevCycle ==
    [][(state.search_term_active /\ state.search_results.count > 0) =>
          LET sr == state.search_results
          IN  /\ NextMatch =>
                    /\ state'.search_results.current_match_idx
                          = IF sr.current_match_idx = sr.count - 1
                            THEN 0 ELSE sr.current_match_idx + 1
                    /\ SameMatches(state, state')
                    /\ NextTimes(sr, sr.count) = sr.current_match_idx
              /\ PrevMatch =>
                    /\ state'.search_results.current_match_idx
                          = IF sr.current_match_idx = 0
                            THEN sr.count - 1 ELSE sr.current_match_idx - 1
                    /\ SameMatches(state, state')]_vars

\* the index is on the last of at least three matches and the view is on
\* its line: where prev from the first match arrives and next wraps from
C17_Witness ==
    /\ pc = "loop"
    /\ state.search_term_active
    /\ state.search_results.count >= 3
    /\ state.search_results.current_match_idx = state.search_results.count - 1
    /\ state.top_line = state.search_results.matches[state.search_results.count].line_idx

\* C18: in every reachable state, whenever the search result set has
\* count > 0 the current-match index is strictly less than count
C18_MatchIdxInRange ==
    state.search_results.count > 0 =>
        /\ state.search_results.current_match_idx >= 0
        /\ state.search_results.current_match_idx < state.search_results.count

\* a result set whose index was moved off the first match and that
\* outlived its search: the search is no longer active
C18_Witness ==
    /\ pc = "loop"
    /\ ~state.search_term_active
    /\ state.search_results.count >= 2
    /\ state.search_results.current_match_idx > 0

\* term occurs somewhere in the lines
Occurs(lines, term) ==
    \E i \in 1..Len(lines) :
        \E j \in 0..(Len(lines[i]) - Len(term)) :
            SubSeq(lines[i], j + 1, j + Len(term)) = term

\* C19: a search for a non-empty term that does not occur in the content
\* gets the NotFound signal from state_perform_search and leaves the result
\* set empty, whatever the earlier search had found; the controller clears
\* the active-search flag and returns success
C19_NotFoundClearsSearch ==
    [][\A typed \in SearchTerms \ {<< >>} :
          (state.view_mode # VIEW_MODE_ARCHIVE
             /\ state'.search_term = typed
             /\ SearchWith(typed, "enter", FALSE)
             /\ ~Occurs(state.content, typed)) =>
              /\ state_perform_search(ui_get_search_input(state, typed, "enter"), FALSE).res
                    = FAT_ERROR_FILE_NOT_FOUND
              /\ state'.search_results.count = 0
              /\ state'.search_results.matches = NULL
              /\ ~state'.search_term_active
              /\ state'.search_term = typed
              /\ res' = FAT_SUCCESS
              /\ pc' = "loop"]_vars

\* the text file at the root, unscathed, after a search for "A": the
\* term is kept, nothing is found, the search is not active
C19_Witness ==
    /\ pc = "loop"
    /\ res = FAT_SUCCESS
    /\ faults = 0
    /\ state.breadcrumbs = <<RootPath>>
    /\ disk[RootPath] = "txt"
    /\ state.view_mode = VIEW_MODE_NORMAL
    /\ state.content # << >>
    /\ state.search_term = <<65>>
    /\ ~state.search_term_active
    /\ state.search_results.count = 0

\* C20: next_match and prev_match fail with Unsupported whenever there is
\* no active search or the result set is empty, in every view mode, and
\* then leave the current-match index and top_line unchanged
C20_NextPrevUnsupported ==
    [][(~(state.search_term_active /\ state.search_results.count > 0)
          /\ (NextMatch \/ PrevMatch)) =>
          /\ res' = FAT_ERROR_UNSUPPORTED
          /\ state'.search_results.current_match_idx
                = state.search_results.current_match_idx
          /\ state'.top_line = state.top_line]_vars

\* C21: state_perform_search with an empty term, or over an empty content
\* store, leaves an empty result set and returns success, neither an error
\* nor the NotFound signal
C21_EmptySearchSucceeds ==
    (pc = "loop" /\ state.view_mode # VIEW_MODE_ARCHIVE /\ state.filepath # NULL) =>
        \A typed \in SearchTerms :
            (typed = << >> \/ state.content = << >>) =>
                LET r == state_perform_search(
                             [state EXCEPT !.search_term = typed,
                                           !.search_term_active = TRUE], FALSE)
                IN  /\ r.res = FAT_SUCCESS
                    /\ r.st.search_results.count = 0
                    /\ r.st.search_results.matches = NULL

(***************************************************************************)
(* The classification of state_init as a function of the force mode, the   *)
(* plugin registry, the plugins that accept the file, the MIME type and    *)
(* the override lists: a third specification that draws them and           *)
(* classifies once.  Here disk holds what the classification reads outside *)
(* the AppState: the MIME type that magic_file reports (NULL for none),    *)
(* the plugins whose can_handle accepts the file, and loaded_plugins in    *)
(* load order.                                                             *)
(***************************************************************************)
MimeJson == <<97, 112, 112, 108, 105, 99, 97, 116, 105, 111, 110, 47, 106, 115, 111, 110>>
MimeJsonl == <<97, 112, 112, 108, 105, 99, 97, 116, 105, 111, 110, 47, 106, 115, 111, 110, 108>>
MimePng == <<105, 109, 97, 103, 101, 47, 112, 110, 103>>
MimeMp4 == <<118, 105, 100, 101, 111, 47, 109, 112, 52>>

\* what magic_file can report: text/plain, application/json,
\* application/jsonl, application/zip, image/png, video/mp4, or nothing
ClassifyMimes == {MimeText, MimeJson, MimeJsonl, MimeZip, MimePng, MimeMp4, NULL}

\* the MIME types that the user lists in the configuration
OverrideMimes == {MimeText, MimeZip}

PluginNames == {"zip", "tar", "gz"}

MaxPlugins == 2
MaxOverrides == 1

\* the sequences without repetition of at most n elements of S
Arrangements(S, n) ==
    {q \in UNION {[1..k -> S] : k \in 0..n} :
        \A i, j \in DOMAIN q : i # j => q[i] # q[j]}

\* loaded_plugins: pm_load_plugins skips a name that is already loaded
Registries == Arrangements(PluginNames, MaxPlugins)

ClassifyConfigs ==
    {[text_mimes |-> t, binary_mimes |-> u] :
        t \in Arrangements(OverrideMimes, MaxOverrides),
        u \in Arrangements(OverrideMimes, MaxOverrides)}

ClassifyInit ==
    /\ \E fm \in ForceModes, cfg \in ClassifyConfigs :
         state = InitialState(fm, cfg)
    /\ \E mime \in ClassifyMimes, claimed \in SUBSET PluginNames, plugins \in Registries :
         disk = [mime |-> mime, claimed |-> claimed, plugins |-> plugins]
    /\ pc = "classify"
    /\ res = FAT_SUCCESS
    /\ ub = FALSE
    /\ faults = 0

\* the classification of state_init, into state->view_mode
ClassifyStep ==
    /\ pc = "classify"
    /\ state' = [state EXCEPT !.view_mode =
                     classify(state.force_view_mode,
                              pm_first_handler(disk.plugins, disk.claimed),
                              disk.mime, state.config)]
    /\ pc' = "classified"
    /\ UNCHANGED <<disk, res, ub, faults>>

ClassifyNext == ClassifyStep

ClassifySpec == ClassifyInit /\ [][ClassifyNext]_vars

\* the registered plugins that accept the file, by their index
Claiming(plugins, claimed) == {i \in DOMAIN plugins : plugins[i] \in claimed}

\* C22: ForceText gives Text and ForceHex gives BinaryHex even for a file
\* that a registered plugin claims; with no force mode a file claimed by a
\* registered plugin gives Archive whatever its MIME type and the override
\* lists are, and the handler is the first claiming plugin in registration
\* order; only without a claiming plugin does the MIME rule decide
C22_ClassifyPriority ==
    (pc = "classified") =>
        LET claiming == Claiming(disk.plugins, disk.claimed)
            handler == pm_first_handler(disk.plugins, disk.claimed)
        IN  /\ (state.force_view_mode = FORCE_VIEW_TEXT) =>
                  state.view_mode = VIEW_MODE_NORMAL
            /\ (state.force_view_mode = FORCE_VIEW_HEX) =>
                  state.view_mode = VIEW_MODE_BINARY_HEX
            /\ (state.force_view_mode = FORCE_VIEW_NONE /\ claiming # {}) =>
                  /\ state.view_mode = VIEW_MODE_ARCHIVE
                  /\ handler \in claiming
                  /\ \A i \in claiming : handler <= i
            /\ (state.force_view_mode = FORCE_VIEW_NONE /\ claiming = {}) =>
                  /\ handler = 0
                  /\ state.view_mode = IF is_binary(disk.mime, state.config)
                                       THEN VIEW_MODE_BINARY_HEX
                                       ELSE VIEW_MODE_NORMAL

\* no force mode, a file of type application/zip that the user lists as
\* always text, accepted by both registered plugins: Archive
C22_Witness ==
    /\ pc = "classified"
    /\ state.force_view_mode = FORCE_VIEW_NONE
    /\ disk.mime = MimeZip
    /\ state.config.text_mimes = <<MimeZip>>
    /\ disk.plugins = <<"tar", "zip">>
    /\ disk.claimed = {"zip", "tar"}
    /\ state.view_mode = VIEW_MODE_ARCHIVE

\* the MIME types of ClassifyMimes under application/ other than
\* application/json, under image/ and under video/
BinaryTypes == {MimeJsonl, MimeZip, MimePng, MimeMp4}

InList(mime, list) == mime \in {list[i] : i \in DOMAIN list}

\* C23: with no force mode and no claiming plugin the view mode is a
\* function of the MIME type and the override lists: Text for an exact
\* match in the always-text list, otherwise BinaryHex for an exact match in
\* the always-binary list, otherwise BinaryHex for application/* (except
\* application/json), image/* and video/*, and Text for every other or
\* unknown type; the result is always one of Text, Archive, BinaryHex
C23_MimeRule ==
    (pc = "classified") =>
        /\ state.view_mode \in {VIEW_MODE_NORMAL, VIEW_MODE_ARCHIVE, VIEW_MODE_BINARY_HEX}
        /\ (state.force_view_mode = FORCE_VIEW_NONE
               /\ Claiming(disk.plugins, disk.claimed) = {}) =>
              state.view_mode =
                  IF InList(disk.mime, state.config.text_mimes) THEN VIEW_MODE_NORMAL
                  ELSE IF InList(disk.mime, state.config.binary_mimes) THEN VIEW_MODE_BINARY_HEX
                  ELSE IF disk.mime \in BinaryTypes THEN VIEW_MODE_BINARY_HEX
                  ELSE VIEW_MODE_NORMAL

\* application/zip in both override lists, no registered plugin accepts
\* the file, no force mode: the always-text list wins
C23_Witness ==
    /\ pc = "classified"
    /\ state.force_view_mode = FORCE_VIEW_NONE
    /\ Claiming(disk.plugins, disk.claimed) = {}
    /\ disk.mime = MimeZip
    /\ state.config.text_mimes = <<MimeZip>>
    /\ state.config.binary_mimes = <<MimeZip>>
    /\ state.view_mode = VIEW_MODE_NORMAL

(***************************************************************************)
(* Horizontal scrolling over one line of valid UTF-8: a fourth             *)
(* specification that starts in a text view on a single line, at           *)
(* left_char = 0, in a narrow right pane, and scrolls right and left.      *)
(***************************************************************************)
\* "a", U+00E9, U+20AC, U+1F600 in UTF-8
Codepoints ==
    {<<97>>, <<195, 169>>, <<226, 130, 172>>, <<240, 159, 152, 128>>}

MaxCodepoints == 3

\* getmaxy of the right pane: visible_content_width = 2
NarrowPane == 10

\* the lines of at most n codepoints
RECURSIVE Utf8Lines(_)
Utf8Lines(n) ==
    IF n = 0 THEN {<< >>}
    ELSE LET shorter == Utf8Lines(n - 1)
         IN  shorter \cup {l \o c : l \in shorter, c \in Codepoints}

ScrollInit ==
    /\ \E cfg \in ConfigChoices, line \in Utf8Lines(MaxCodepoints) :
         state = [InitialState(FORCE_VIEW_NONE, cfg) EXCEPT
                     !.filepath = RootPath,
                     !.breadcrumbs = <<RootPath>>,
                     !.content = <<line>>,
                     !.max_line_len = Len(line)]
    /\ disk = [p \in Paths |-> IF p = RootPath THEN "txt" ELSE Absent]
    /\ pc = "loop"
    /\ res = FAT_SUCCESS
    /\ ub = FALSE
    /\ faults = 0

ScrollNext == ScrollRightAt(NarrowPane) \/ ScrollLeft

ScrollSpec == ScrollInit /\ [][ScrollNext]_vars

\* the byte offsets of a line at which a codepoint starts, and its end
Boundaries(line) ==
    {i \in 0..Len(line) :
        IF i = Len(line) THEN TRUE ELSE ~(line[i + 1] \in 128..191)}

\* the nearest boundary after offset i, and before it
NextBoundary(line, i) ==
    CHOOSE j \in Boundaries(line) :
        j > i /\ \A k \in Boundaries(line) : k > i => j <= k

PrevBoundary(line, i) ==
    CHOOSE j \in Boundaries(line) :
        j < i /\ \A k \in Boundaries(line) : k < i => j >= k

\* C24: on a line of valid UTF-8, through any sequence of scroll-left and
\* scroll-right from left_char = 0, left_char is the byte offset of a
\* codepoint boundary: a scroll-right that moves goes to the next boundary
\* (the byte length of the codepoint at left_char), a scroll-left goes to
\* the start of the preceding codepoint
C24_LeftCharOnBoundary ==
    [][LET line == state.content[1]
           left == state.left_char
       IN  /\ state'.left_char \in Boundaries(line)
           /\ ScrollRightAt(NarrowPane) =>
                 state'.left_char =
                     IF left < MaxScrollLimit(state, NarrowPane) /\ left < Len(line)
                     THEN NextBoundary(line, left) ELSE left
           /\ ScrollLeft =>
                 state'.left_char = IF left > 0 THEN PrevBoundary(line, left) ELSE 0]_vars

\* scrolled right over the two-byte U+00E9 and then over the three-byte
\* U+20AC
C24_Witness ==
    /\ pc = "loop"
    /\ state.content = <<(<<195, 169, 226, 130, 172, 240, 159, 152, 128>>)>>
    /\ state.left_char = 5

\* C25: through any sequence of horizontal scroll actions left_char stays
\* within 0 and max(0, max_line_len - visible_width), also when the
\* codepoint that scroll-right consumes has several bytes
C25_LeftCharWithinLimit ==
    /\ state.left_char >= 0
    /\ state.left_char <= MaxScrollLimit(state, NarrowPane)

(***************************************************************************)
(* src/src/string_list.c with its capacity: a fifth specification in which *)
(* state is one StringList struct (lines, count, capacity; lines holds the *)
(* count stored strings) that is added to and freed, and pc names the last *)
(* call.                                                                   *)
(***************************************************************************)
\* (list->capacity == 0) ? 8 : list->capacity * 2
StringListFirstCapacity == 8

\* list->lines = NULL; list->count = 0; list->capacity = 0;
StringList_init == [lines |-> << >>, count |-> 0, capacity |-> 0]

\* where StringList_add can fail: realloc (only when the list is full), strdup
AddOutcomes == {"ok", "oom_realloc", "oom_strdup"}

AddOutcomeOk(list, o) ==
    /\ o \in AddOutcomes
    /\ (o = "oom_realloc") => list.count >= list.capacity

\* an add that counts the slot of a failed strdup
StringList_add_counts_failed(list, str, o) ==
    LET grown == IF list.count >= list.capacity
                 THEN [list EXCEPT !.capacity = IF @ = 0 THEN StringListFirstCapacity
                                                ELSE @ * 2]
                 ELSE list
    IN  CASE o = "oom_realloc" -> [list |-> list, res |-> FAT_ERROR_MEMORY]
          [] o = "oom_strdup"  -> [list |-> [grown EXCEPT !.lines = Append(@, NULL),
                                                          !.count = @ + 1],
                                   res |-> FAT_ERROR_MEMORY]
          [] OTHER             -> [list |-> [grown EXCEPT !.lines = Append(@, str),
                                                          !.count = @ + 1],
                                   res |-> FAT_SUCCESS]

\* StringList_add: the list afterwards and the FatResult.  A failed strdup
\* leaves NULL in the slot lines[count], which is not one of the count
\* stored lines
StringList_add(list, str, o) ==
    LET grown == IF list.count >= list.capacity
                 THEN [list EXCEPT !.capacity = IF @ = 0 THEN StringListFirstCapacity
                                                ELSE @ * 2]
                 ELSE list
    IN  CASE o = "oom_realloc" -> [list |-> list, res |-> FAT_ERROR_MEMORY]
          [] o = "oom_strdup"  -> [list |-> grown, res |-> FAT_ERROR_MEMORY]
          [] OTHER             -> [list |-> [grown EXCEPT !.lines = Append(@, str),
                                                          !.count = @ + 1],
                                   res |-> FAT_SUCCESS]

\* a free that keeps the capacity
StringList_free_keeps_capacity(list) ==
    [StringList_init EXCEPT !.capacity = list.capacity]

\* frees the lines and the array, then StringList_init
StringList_free(list) == StringList_init

\* the strings added: "" and "a"
ListStrings == {<< >>, <<97>>}

MaxListLen == 9

ListInit ==
    /\ state = StringList_init
    /\ disk = [p \in Paths |-> Absent]
    /\ pc = "init"
    /\ res = FAT_SUCCESS
    /\ ub = FALSE
    /\ faults = 0

ListAddWith(str, o) ==
    /\ state.count < MaxListLen
    /\ AddOutcomeOk(state, o)
    /\ LET r == StringList_add(state, str, o)
       IN  /\ state' = r.list
           /\ res' = r.res
    /\ pc' = "added"
    /\ UNCHANGED <<disk, ub, faults>>

ListAdd == \E str \in ListStrings, o \in AddOutcomes : ListAddWith(str, o)

ListFree ==
    /\ state' = StringList_free(state)
    /\ pc' = IF pc \in {"freed", "freed_again"} THEN "freed_again" ELSE "freed"
    /\ UNCHANGED <<disk, res, ub, faults>>

ListNext == ListAdd \/ ListFree

ListSpec == ListInit /\ [][ListNext]_vars

\* no lines, count 0, capacity 0
EmptyStore(list) ==
    /\ list.lines = << >>
    /\ list.count = 0
    /\ list.capacity = 0

\* C26: StringList_free on a populated store, and again on the freed
\* store, each time leaves an empty store (no lines, count 0, capacity 0)
\* on which StringList_add works as on a freshly initialised store
C26_FreeIdempotent ==
    [][ListFree =>
          /\ EmptyStore(state')
          /\ EmptyStore(StringList_free(state'))
          /\ \A str \in ListStrings, o \in AddOutcomes :
                /\ AddOutcomeOk(state', o) = AddOutcomeOk(StringList_init, o)
                /\ StringList_add(state', str, o) = StringList_add(StringList_init, str, o)
                /\ StringList_add(StringList_free(state'), str, o)
                      = StringList_add(StringList_init, str, o)]_vars

\* a store freed a second time
C26_Witness ==
    /\ pc = "freed_again"
    /\ EmptyStore(state)

\* C27: StringList_add appends a copy of the line at the end, with the
\* earlier lines unchanged and in their order, keeps count <= capacity at
\* all times, and when an allocation fails returns OutOfMemory with count
\* and all stored lines unchanged
C27_AddAppendsOrKeeps ==
    [][/\ state'.count <= state'.capacity
       /\ state'.count = Len(state'.lines)
       /\ \A str \in ListStrings :
            /\ ListAddWith(str, "ok") =>
                  /\ res' = FAT_SUCCESS
                  /\ state'.count = state.count + 1
                  /\ state'.lines[state'.count] = str
                  /\ \A i \in 1..state.count : state'.lines[i] = state.lines[i]
            /\ \A o \in AddOutcomes \ {"ok"} :
                  ListAddWith(str, o) =>
                      /\ res' = FAT_ERROR_MEMORY
                      /\ state'.count = state.count
                      /\ state'.lines = state.lines]_vars

\* a full store of 8 lines on which the ninth add failed in strdup after
\* the array had been doubled
C27_Witness ==
    /\ pc = "added"
    /\ res = FAT_ERROR_MEMORY
    /\ state.count = StringListFirstCapacity
    /\ state.capacity = 2 * StringListFirstCapacity
    /\ state.lines[1] = <<97>>
    /\ state.lines[2] = << >>

(***************************************************************************)
(* State after a successful load.                                          *)
(***************************************************************************)
\* value of a string of decimal digits, -1 when it is not one
RECURSIVE DecValue(_)
DecValue(str) ==
    IF str = << >> THEN -1
    ELSE IF Last(str) < 48 \/ Last(str) > 57 THEN -1
    ELSE IF Len(str) = 1 THEN Last(str) - 48
    ELSE IF DecValue(Front(str)) = -1 THEN -1
    ELSE 10 * DecValue(Front(str)) + (Last(str) - 48)

\* the line is label, ": " and the decimal form of n
IsCountLine(line, label, n) ==
    LET head == label \o <<58, 32>>
    IN  /\ HasPrefix(line, head)
        /\ DecValue(SubSeq(line, Len(head) + 1, Len(line))) = n

\* a step in which state_init returned FAT_SUCCESS: the load of main, of a
\* confirm that extracted an entry, or of a go-back that popped
LoadSucceeded ==
    \/ StartupWith("ok")
    \/ CanExtract(state, disk) /\ ConfirmWith("ok", "ok")
    \/ CanPop(state) /\ GoBackWith("ok")

\* some line of the store has n bytes and none has more
LongestIs(lines, n) ==
    /\ \A i \in 1..Len(lines) : Len(lines[i]) <= n
    /\ IF lines = << >> THEN n = 0 ELSE \E i \in 1..Len(lines) : Len(lines[i]) = n

\* C28: after every successful load the last metadata line is "Lines: N" in
\* the text and hex views and "Entries: N" in the archive view, N being the
\* number of content lines; top_line and left_char are 0, the search is
\* inactive with an empty result set, the input mode is Normal and
\* max_line_len is the byte length of the longest content line
C28_LoadedState ==
    [][LoadSucceeded =>
         /\ res' = FAT_SUCCESS
         /\ state'.metadata # << >>
         /\ IsCountLine(Last(state'.metadata),
                        IF state'.view_mode = VIEW_MODE_ARCHIVE
                        THEN <<69, 110, 116, 114, 105, 101, 115>>
                        ELSE <<76, 105, 110, 101, 115>>,
                        Len(state'.content))
         /\ state'.top_line = 0
         /\ state'.left_char = 0
         /\ ~state'.search_term_active
         /\ state'.search_results.count = 0
         /\ state'.search_results.matches = NULL
         /\ state'.mode = MODE_NORMAL
         /\ LongestIs(state'.content, state'.max_line_len)]_vars

\* a confirm extracted an entry of the archive and loaded it: two
\* breadcrumbs, a text or hex view of more than one line under "Lines: N",
\* the position at the origin and the search inactive
C28_Witness ==
    /\ pc = "loop"
    /\ res = FAT_SUCCESS
    /\ Len(state.breadcrumbs) = 2
    /\ state.filepath = Last(state.breadcrumbs)
    /\ state.view_mode # VIEW_MODE_ARCHIVE
    /\ Len(state.content) > 1
    /\ state.metadata # << >>
    /\ IsCountLine(Last(state.metadata), <<76, 105, 110, 101, 115>>,
                   Len(state.content))
    /\ state.top_line = 0
    /\ state.left_char = 0
    /\ state.max_line_len > 0
    /\ LongestIs(state.content, state.max_line_len)
    /\ ~state.search_term_active
    /\ state.search_results.count = 0
    /\ state.mode = MODE_NORMAL

(***************************************************************************)
(* Open-external.                                                          *)
(***************************************************************************)
\* C29: after open-external ran a command, the content is the rendering of
\* the file now on disk in the same view mode when the view is Text or
\* BinaryHex, and the state is unchanged when the view is Archive; the
\* filepath and the breadcrumb stack are unchanged in both; when no command
\* was resolved the whole state is unchanged
C29_OpenExternalReloads ==
    [][/\ OpenExternalWith(FALSE, "none") => state' = state
       /\ \A e \in ExternalEffects :
            OpenExternalWith(TRUE, e) =>
               /\ state'.filepath = state.filepath
               /\ state'.breadcrumbs = state.breadcrumbs
               /\ IF state.view_mode = VIEW_MODE_ARCHIVE
                  THEN state' = state
                  ELSE /\ state'.view_mode = state.view_mode
                       /\ (IF state.filepath = NULL THEN FALSE
                            ELSE disk'[state.filepath] # Absent) =>
                              state'.content = Render(state.view_mode, disk'[state.filepath])]_vars

(***************************************************************************)
(* Result codes of the actions.                                            *)
(***************************************************************************)
\* C30: every failure of a core operation inside an action (the load of a
\* confirm or a go-back, the extraction of a confirm, the reload of a
\* toggle of view mode or of open-external) is the result of process_input:
\* no action returns success after one of its core operations failed
C30_FailuresReported ==
    [][/\ \A x \in ExtractOutcomes, o \in LoadOutcomes :
            (/\ x # "ok" \/ o # "ok"
             /\ CanExtract(state, disk)
             /\ ConfirmWith(x, o)) => res' # FAT_SUCCESS
       /\ \A o \in LoadOutcomes \ {"ok"} :
            (CanPop(state) /\ GoBackWith(o)) => res' # FAT_SUCCESS
       /\ \A o \in ReloadOutcomes \ {"ok"}, k \in 0..MaxRendered :
            /\ (state.view_mode # VIEW_MODE_ARCHIVE /\ ToggleViewModeWith(o, k)) =>
                  res' # FAT_SUCCESS
            /\ \A e \in ExternalEffects :
                  (state.view_mode # VIEW_MODE_ARCHIVE /\ OpenExternalStep(TRUE, e, o, k)) =>
                     res' # FAT_SUCCESS]_vars

(***************************************************************************)
(* src/src/main/main.c: main from the command line to the exit code, with  *)
(* the keys that getch returns resolved through config.key_map.  A third   *)
(* specification: before the load, state holds the locals of main (argv,   *)
(* then force_mode and filepath); pc "exited" is return 0, pc "failed" is  *)
(* return 1.                                                               *)
(***************************************************************************)
\* argv[1..]: "--force-text", "--force-hex", "-h", "--help", "-x", "/r"
ArgTokens ==
    { <<45, 45, 102, 111, 114, 99, 101, 45, 116, 101, 120, 116>>,
      <<45, 45, 102, 111, 114, 99, 101, 45, 104, 101, 120>>,
      <<45, 104>>,
      <<45, 45, 104, 101, 108, 112>>,
      <<45, 120>>,
      RootPath }

\* argc - 1 is at most MaxArgs
MaxArgs == 3

\* a parser that skips the options it does not know
RECURSIVE parse_args_skips_unknown(_, _, _, _)
parse_args_skips_unknown(argv, i, force_mode, filepath) ==
    IF i > Len(argv)
    THEN [code |-> IF filepath = NULL THEN 1 ELSE -1,
          force_mode |-> force_mode, filepath |-> filepath]
    ELSE IF argv[i] = <<45, 45, 102, 111, 114, 99, 101, 45, 116, 101, 120, 116>>
    THEN parse_args_skips_unknown(argv, i + 1, FORCE_VIEW_TEXT, filepath)
    ELSE IF argv[i] = <<45, 45, 102, 111, 114, 99, 101, 45, 104, 101, 120>>
    THEN parse_args_skips_unknown(argv, i + 1, FORCE_VIEW_HEX, filepath)
    ELSE IF argv[i] = <<45, 104>> \/ argv[i] = <<45, 45, 104, 101, 108, 112>>
    THEN [code |-> 0, force_mode |-> force_mode, filepath |-> filepath]
    ELSE IF ByteAt(argv[i], 0) = 45
    THEN parse_args_skips_unknown(argv, i + 1, force_mode, filepath)
    ELSE IF filepath # NULL
    THEN [code |-> 1, force_mode |-> force_mode, filepath |-> filepath]
    ELSE parse_args_skips_unknown(argv, i + 1, force_mode, argv[i])

\* the for loop over argv from index i, and the check of filepath after it;
\* code -1: main goes on to ui_init
RECURSIVE parse_args(_, _, _, _)
parse_args(argv, i, force_mode, filepath) ==
    IF i > Len(argv)
    THEN [code |-> IF filepath = NULL THEN 1 ELSE -1,
          force_mode |-> force_mode, filepath |-> filepath]
    ELSE IF argv[i] = <<45, 45, 102, 111, 114, 99, 101, 45, 116, 101, 120, 116>>
    THEN parse_args(argv, i + 1, FORCE_VIEW_TEXT, filepath)
    ELSE IF argv[i] = <<45, 45, 102, 111, 114, 99, 101, 45, 104, 101, 120>>
    THEN parse_args(argv, i + 1, FORCE_VIEW_HEX, filepath)
    ELSE IF argv[i] = <<45, 104>> \/ argv[i] = <<45, 45, 104, 101, 108, 112>>
    THEN [code |-> 0, force_mode |-> force_mode, filepath |-> filepath]
    ELSE IF ByteAt(argv[i], 0) = 45
    THEN [code |-> 1, force_mode |-> force_mode, filepath |-> filepath]
    ELSE IF filepath # NULL
    THEN [code |-> 1, force_mode |-> force_mode, filepath |-> filepath]
    ELSE parse_args(argv, i + 1, force_mode, argv[i])

\* the size of config.key_map.  The header that defines MAX_KEY_CODE is
\* not among the sources; 512 is one more than the largest key code of
\* curses, and the keys of the model lie on both sides of the range
MAX_KEY_CODE == 512

\* config.key_map after populate_key_map: ACTION_NONE everywhere but at
\* the keys of a keybindings.json that binds every action to one key:
\* q j k h l, KEY_NPAGE, KEY_PPAGE, H (jump_to_start), G (jump_to_end),
\* L (jump_to_line), w / n N v o O b T ? and Enter
key_map ==
    [k \in 0..(MAX_KEY_CODE - 1) |->
        CASE k = 113 -> "ACTION_QUIT"
          [] k = 106 -> "ACTION_SCROLL_DOWN"
          [] k = 107 -> "ACTION_SCROLL_UP"
          [] k = 104 -> "ACTION_SCROLL_LEFT"
          [] k = 108 -> "ACTION_SCROLL_RIGHT"
          [] k = 338 -> "ACTION_PAGE_DOWN"
          [] k = 339 -> "ACTION_PAGE_UP"
          [] k = 72  -> "ACTION_JUMP_TO_START"
          [] k = 71  -> "ACTION_JUMP_TO_END"
          [] k = 76  -> "ACTION_JUMP_TO_LINE"
          [] k = 119 -> "ACTION_TOGGLE_WRAP"
          [] k = 47  -> "ACTION_SEARCH"
          [] k = 110 -> "ACTION_NEXT_MATCH"
          [] k = 78  -> "ACTION_PREV_MATCH"
          [] k = 118 -> "ACTION_TOGGLE_VIEW_MODE"
          [] k = 111 -> "ACTION_OPEN_EXTERNAL"
          [] k = 79  -> "ACTION_OPEN_EXTERNAL_DEFAULT"
          [] k = 98  -> "ACTION_GO_BACK"
          [] k = 84  -> "ACTION_SELECT_THEME"
          [] k = 63  -> "ACTION_TOGGLE_HELP"
          [] k = 10  -> "ACTION_CONFIRM"
          [] OTHER   -> "ACTION_NONE"]

\* what getch returns: ERR (-1), the bound keys, g, t and z (not bound),
\* KEY_RESIZE (410) and a code past the table
Keys ==
    {-1, 10, 47, 63, 71, 72, 76, 78, 79, 84, 98, 103, 104, 106, 107, 108, 110,
     111, 113, 116, 118, 119, 122, 338, 339, 410, 600}

\* the process starts: argv is any command line of at most MaxArgs
\* arguments, the file named "/r" is an archive, a text file, an empty
\* file or missing;
\* the run meets no other disturbance (no allocation or read fails, no
\* external command touches the file)
MainInit ==
    /\ \E argv \in UNION {[1..n -> ArgTokens] : n \in 0..MaxArgs} :
         state = [argv |-> argv]
    /\ \E f \in {"zipE", "txt", "empty", Absent} :
         disk = [p \in Paths |-> IF p = RootPath THEN f ELSE Absent]
    /\ pc = "args"
    /\ res = FAT_SUCCESS
    /\ ub = FALSE
    /\ faults = MaxFaults

\* main up to the check of filepath: return 0 for help, return 1 for an
\* unknown option, a second file or no file
ParseArgs ==
    /\ pc = "args"
    /\ LET r == parse_args(state.argv, 1, FORCE_VIEW_NONE, NULL)
       IN  /\ state' = [force_mode |-> r.force_mode, filepath |-> r.filepath]
           /\ pc' = IF r.code = 0 THEN "exited"
                    ELSE IF r.code = 1 THEN "failed" ELSE "ui"
    /\ UNCHANGED <<disk, res, ub, faults>>

\* ui_init, config_load, check_terminal_size and the three newwin; w is
\* what the terminal does: "small_quit" is q typed while the terminal is
\* too small (return 0), "no_windows" a newwin that returns NULL (return 1)
UiInit(w) ==
    /\ pc = "ui"
    /\ \E cfg \in ConfigChoices :
         state' = IF w = "ok" THEN InitialState(state.force_mode, cfg) ELSE state
    /\ pc' = CASE w = "ok" -> "start"
               [] w = "small_quit" -> "exited"
               [] OTHER -> "failed"
    /\ UNCHANGED <<disk, res, ub, faults>>

\* one turn of the while loop of main: ch is what getch returns, ch2 what
\* the getch after g returns, small_quit whether check_terminal_size ends
\* the loop, garbage what a read of key_map outside the table is taken for
MainKey(ch, ch2, small_quit, garbage) ==
    /\ pc = "loop"
    /\ IF ch < 0 \/ ch >= MAX_KEY_CODE
       THEN /\ ch2 = ch /\ ~small_quit
            /\ state' = IF garbage = "quit" THEN full_app_reset(state) ELSE state
            /\ disk' = IF garbage = "quit" THEN SweepTemp(state.breadcrumbs, disk) ELSE disk
            /\ pc' = CASE garbage = "quit" -> "exited"
                       [] garbage = "crash" -> "crashed"
                       [] OTHER -> "loop"
            /\ res' = FAT_SUCCESS
            /\ ub' = TRUE
            /\ UNCHANGED faults
       ELSE /\ garbage = "none"
            /\ IF key_map[ch] = "ACTION_QUIT" \/ small_quit
               THEN ch2 = ch /\ Quit
               ELSE IF ch = 410
               THEN ch2 = ch /\ UNCHANGED vars
               ELSE IF ch = 103
               THEN IF ch2 = 116 THEN JumpToLine
                    ELSE IF ch2 = 103 THEN JumpToStart
                    ELSE Return(state, FAT_SUCCESS) /\ UNCHANGED <<disk, faults>>
               ELSE /\ ch2 = ch
                    /\ CASE key_map[ch] = "ACTION_JUMP_TO_END" -> JumpToEnd
                         [] key_map[ch] \in {"ACTION_OPEN_EXTERNAL",
                                             "ACTION_OPEN_EXTERNAL_DEFAULT"} -> OpenExternal
                         [] key_map[ch] = "ACTION_SCROLL_DOWN" -> ScrollDown
                         [] key_map[ch] = "ACTION_SCROLL_UP" -> ScrollUp
                         [] key_map[ch] = "ACTION_PAGE_DOWN" -> PageDown
                         [] key_map[ch] = "ACTION_PAGE_UP" -> PageUp
                         [] key_map[ch] = "ACTION_CONFIRM" -> Confirm
                         [] key_map[ch] = "ACTION_GO_BACK" -> GoBack
                         [] key_map[ch] = "ACTION_TOGGLE_VIEW_MODE" -> ToggleViewMode
                         [] key_map[ch] = "ACTION_SCROLL_RIGHT" -> ScrollRight
                         [] key_map[ch] = "ACTION_SCROLL_LEFT" -> ScrollLeft
                         [] key_map[ch] = "ACTION_SEARCH" -> Search
                         [] key_map[ch] = "ACTION_NEXT_MATCH" -> NextMatch
                         [] key_map[ch] = "ACTION_PREV_MATCH" -> PrevMatch
                         [] key_map[ch] = "ACTION_TOGGLE_WRAP" -> ToggleWrap
                         [] OTHER -> Return(state, FAT_SUCCESS) /\ UNCHANGED <<disk, faults>>

MainNext ==
    \/ ParseArgs
    \/ \E w \in {"ok", "small_quit", "no_windows"} : UiInit(w)
    \/ Startup
    \/ \E ch \in Keys :
          \E ch2 \in (IF ch = 103 THEN Keys ELSE {ch}),
             small_quit \in (IF ch < 0 \/ ch >= MAX_KEY_CODE THEN {FALSE} ELSE BOOLEAN),
             garbage \in (IF ch < 0 \/ ch >= MAX_KEY_CODE
                          THEN {"quit", "crash", "other"} ELSE {"none"}) :
            MainKey(ch, ch2, small_quit, garbage)

MainSpec == MainInit /\ [][MainNext]_vars

\* the arguments that ask for help, the options main does not know, and
\* the arguments that name a file
HelpAsked(argv) ==
    \E i \in DOMAIN argv : argv[i] \in {<<45, 104>>, <<45, 45, 104, 101, 108, 112>>}

UnknownOption(argv) ==
    \E i \in DOMAIN argv :
        /\ HasPrefix(argv[i], <<45>>)
        /\ argv[i] \notin {<<45, 104>>, <<45, 45, 104, 101, 108, 112>>,
                            <<45, 45, 102, 111, 114, 99, 101, 45, 116, 101, 120, 116>>,
                            <<45, 45, 102, 111, 114, 99, 101, 45, 104, 101, 120>>}

FilesNamed(argv) == Cardinality({i \in DOMAIN argv : ~HasPrefix(argv[i], <<45>>)})

\* C31: the process returns 0 after a normal quit or when help is asked
\* for, and 1 on bad arguments (an unknown option, more than one file, no
\* file), when a window cannot be created and when the initial load fails;
\* a failed initial load never enters the event loop.  (When help is asked
\* for together with a bad argument, the first of the two decides.)
C31_ExitCodes ==
    [][/\ ParseArgs =>
            /\ (/\ HelpAsked(state.argv)
                /\ ~UnknownOption(state.argv)
                /\ FilesNamed(state.argv) <= 1) => pc' = "exited"
            /\ (/\ ~HelpAsked(state.argv)
                /\ UnknownOption(state.argv) \/ FilesNamed(state.argv) # 1) => pc' = "failed"
            /\ (/\ ~HelpAsked(state.argv)
                /\ ~UnknownOption(state.argv)
                /\ FilesNamed(state.argv) = 1) => pc' = "ui"
       /\ UiInit("no_windows") => pc' = "failed"
       /\ \A o \in LoadOutcomes :
            StartupWith(o) =>
               /\ (res' # FAT_SUCCESS) = (o # "ok")
               /\ pc' = IF res' # FAT_SUCCESS THEN "failed" ELSE "loop"
       /\ pc' = "loop" => pc \in {"start", "loop"}
       /\ \A ch \in Keys :
            (/\ pc = "loop"
             /\ ch >= 0 /\ ch < MAX_KEY_CODE
             /\ IF ch >= 0 /\ ch < MAX_KEY_CODE
                THEN key_map[ch] = "ACTION_QUIT" ELSE FALSE
             /\ MainKey(ch, ch, FALSE, "none")) => pc' = "exited"]_vars

\* "fat /r" on a missing file: the initial load failed and main returned 1
\* without entering the loop
C31_Witness ==
    /\ pc = "failed"
    /\ res = FAT_ERROR_FILE_NOT_FOUND
    /\ state.filepath = NULL
    /\ disk[RootPath] = Absent

\* C32: a key code without an entry in the key map, a code outside
\* [0, MAX_KEY_CODE) included, is a no-op where it is looked up (the quit
\* check of the main loop and process_input): the lookup stays inside the
\* table, the loop goes on and the view state and the disk are unchanged
C32_UnmappedKeyNoOp ==
    [][\A ch \in Keys \ {103} :
         \A garbage \in {"none", "quit", "crash", "other"} :
            (/\ pc = "loop"
             /\ IF ch >= 0 /\ ch < MAX_KEY_CODE
                THEN key_map[ch] = "ACTION_NONE" ELSE TRUE
             /\ MainKey(ch, ch, FALSE, garbage)) =>
                /\ ~ub'
                /\ pc' = "loop"
                /\ state' = state
                /\ disk' = disk]_vars

\* the smaller of two integers
Least(a, b) == IF a < b THEN a ELSE b

\* what the sequence g, ch2 does to the state when the prompt of "gt"
\* returns N; empty_top is top_line after a jump in an empty content store
AfterG(s, ch2, N, empty_top) ==
    IF ch2 = 103 THEN [s EXCEPT !.top_line = 0, !.left_char = 0]
    ELSE IF ch2 = 116 /\ N >= 1
    THEN [s EXCEPT !.top_line = IF Len(s.content) = 0 THEN empty_top
                                ELSE Least(N - 1, Len(s.content) - 1)]
    ELSE s

\* a turn of the loop that reads g and then ch2, the prompt returning N
GSequence(ch2, N) ==
    /\ pc = "loop"
    /\ MainKey(103, ch2, FALSE, "none")
    /\ (ch2 = 116) => JumpToLineWith(N)

\* C33 as stated: after g one more key is read and consumed; g jumps to the
\* start, t prompts for N and for N >= 1 sets top_line to
\* min(N - 1, content.count - 1), any other key leaves the state as it is
\* and is not dispatched (a quit key does not quit)
C33_GSequenceAsStated ==
    [][\A ch2 \in Keys :
         \A N \in (IF ch2 = 116 THEN -1..MaxLineInput ELSE {0}) :
         GSequence(ch2, N) =>
            /\ state' = AfterG(state, ch2, N, Least(N - 1, Len(state.content) - 1))
            /\ pc' = "loop"
            /\ disk' = disk]_vars

\* C33, amended: as above, but in an empty content store the line jump
\* sets top_line to 0
C33_GSequence ==
    [][\A ch2 \in Keys :
         \A N \in (IF ch2 = 116 THEN -1..MaxLineInput ELSE {0}) :
         GSequence(ch2, N) =>
            /\ state' = AfterG(state, ch2, N, 0)
            /\ pc' = "loop"
            /\ disk' = disk]_vars

\* the text file of three lines after "gt" with a number past its end:
\* the last line is on top
C33_Witness ==
    /\ pc = "loop"
    /\ state.view_mode = VIEW_MODE_NORMAL
    /\ Len(state.content) = 3
    /\ state.top_line = 2
    /\ state.left_char = 0
    /\ ~ub

\* C34: every scroll behaviour is reached through its logical action,
\* whatever the key: a key that key_map resolves to jump-to-start sets
\* top_line and left_char to 0 and a key resolved to jump-to-line performs
\* the line jump, as the key resolved to jump-to-end puts the last line on
\* top
C34_ActionsByKeyMap ==
    [][\A ch \in Keys \cap (0..(MAX_KEY_CODE - 1)) :
         (/\ pc = "loop"
          /\ key_map[ch] \in {"ACTION_JUMP_TO_START", "ACTION_JUMP_TO_END",
                               "ACTION_JUMP_TO_LINE"}
          /\ MainKey(ch, ch, FALSE, "none")) =>
             CASE key_map[ch] = "ACTION_JUMP_TO_START" ->
                    state' = [state EXCEPT !.top_line = 0, !.left_char = 0]
               [] key_map[ch] = "ACTION_JUMP_TO_END" ->
                    state' = [state EXCEPT !.top_line = LastLine(state), !.left_char = 0]
               [] OTHER ->
                    \E N \in -1..MaxLineInput : state' = AfterG(state, 116, N, 0)]_vars

\* C35: with a force mode (--force-text, --force-hex) no load follows the
\* initial one: in every state of the event loop the view mode is not
\* Archive and the breadcrumb stack has exactly one entry, and a toggle of
\* view mode still switches between Text and BinaryHex
C35_ForcedModeStays ==
    [][(IF pc' = "loop" THEN state'.force_view_mode # FORCE_VIEW_NONE ELSE FALSE) =>
          /\ state'.view_mode # VIEW_MODE_ARCHIVE
          /\ Len(state'.breadcrumbs) = 1
          /\ (pc = "start") =>
                state'.view_mode = IF state'.force_view_mode = FORCE_VIEW_TEXT
                                   THEN VIEW_MODE_NORMAL ELSE VIEW_MODE_BINARY_HEX
          /\ (pc = "loop" /\ ToggleViewMode) =>
                state'.view_mode = OtherMode(state.view_mode)]_vars

\* "fat --force-text /r" on an archive, after a toggle: the hex view of
\* the archive, one breadcrumb
C35_Witness ==
    /\ pc = "loop"
    /\ state.force_view_mode = FORCE_VIEW_TEXT
    /\ disk[RootPath] = "zipE"
    /\ state.view_mode = VIEW_MODE_BINARY_HEX
    /\ state.content # << >>
    /\ state.breadcrumbs = <<RootPath>>

(***************************************************************************)
(* Flags of the view: the search in the archive view, the line wrap.       *)
(***************************************************************************)
\* C36: in the Archive view the search is inactive: search, next-match and
\* prev-match do nothing there, and the Archive view is entered only by a
\* full load (startup, confirm, go-back), which resets the search
C36_NoSearchInArchive ==
    [][/\ (pc' \in {"loop", "crashed"} /\ state'.view_mode = VIEW_MODE_ARCHIVE) =>
            ~state'.search_term_active
       /\ (/\ pc = "loop"
           /\ state.view_mode = VIEW_MODE_ARCHIVE
           /\ Search \/ NextMatch \/ PrevMatch) => state' = state
       /\ (/\ state.view_mode # VIEW_MODE_ARCHIVE
           /\ state'.view_mode = VIEW_MODE_ARCHIVE) => (Startup \/ Confirm \/ GoBack)]_vars

\* a go-back from an extracted file in which a term had been searched: the
\* archive is shown again, the term is still in the buffer and the search
\* is inactive
C36_Witness ==
    /\ pc = "loop"
    /\ state.view_mode = VIEW_MODE_ARCHIVE
    /\ state.search_term # << >>
    /\ ~state.search_term_active
    /\ state.content # << >>
    /\ state.filepath = RootPath

\* C37: the line-wrap flag is set only while the view mode is Text: it is
\* never set in the BinaryHex or the Archive view, whatever the order of
\* toggle-wrap, toggle-view-mode, open-external, confirm and go-back
C37_WrapOnlyInText ==
    (pc \in {"loop", "crashed"} /\ state.line_wrap_enabled) =>
        state.view_mode = VIEW_MODE_NORMAL

(***************************************************************************)
(* Confirm followed by go-back.                                            *)
(***************************************************************************)
\* the state and the disk after a confirm on (s, d) in which the
\* extraction and the load succeed
AfterConfirm(s, d) ==
    LET e == zip_extract_entry(FileDef(d[s.filepath]), s.content[s.top_line + 1], d, "ok")
        r == state_init([s EXCEPT !.search_term_active = FALSE], e.temp, e.disk, "ok")
    IN  [st |-> r.st, disk |-> e.disk, temp |-> e.temp]

\* the state and the disk after a go-back on (s, d) that pops and whose
\* load succeeds
AfterGoBack(s, d) ==
    LET d1 == cleanup_temp_file_if_exists(Last(s.breadcrumbs), d)
        s0 == [s EXCEPT !.breadcrumbs = Front(@)]
        r  == state_init(s0, Last(s0.breadcrumbs), d1, "ok")
    IN  [st |-> r.st, disk |-> d1]

\* a confirm can succeed on (s, d)
ConfirmCanSucceed(s, d) ==
    /\ CanExtract(s, d)
    /\ ExtractOutcomeOk(FileDef(d[s.filepath]), s.content[s.top_line + 1], "ok")

\* C38: a successful confirm followed at once by go-back is a round trip:
\* filepath, view mode (Archive), content lines and breadcrumb stack are
\* those before the confirm, the temp file of the confirm is gone, and the
\* cursor is reset (top_line = 0)
C38_ConfirmGoBackRoundTrip ==
    (pc = "loop" /\ (IF state.filepath = NULL THEN FALSE ELSE ConfirmCanSucceed(state, disk))) =>
        LET c == AfterConfirm(state, disk)
        IN  /\ CanPop(c.st)
            /\ LET g == AfterGoBack(c.st, c.disk)
               IN  /\ g.disk[Last(Front(c.st.breadcrumbs))] # Absent
                   /\ g.st.filepath = state.filepath
                   /\ g.st.view_mode = VIEW_MODE_ARCHIVE
                   /\ g.st.content = state.content
                   /\ g.st.breadcrumbs = state.breadcrumbs
                   /\ g.disk[c.temp] = Absent
                   /\ g.st.top_line = 0

(***************************************************************************)
(* Metadata across reloads.                                                *)
(***************************************************************************)
\* C39: a reload (toggle view mode, or the reload after open-external)
\* replaces only the trailing count line of the metadata: whether it
\* succeeds or fails, every line before the count line stays in place
\* unchanged and the number of metadata lines does not shrink
C39_ReloadKeepsMetadata ==
    [][(/\ pc = "loop"
        /\ state.view_mode # VIEW_MODE_ARCHIVE
        /\ state.metadata # << >>
        /\ ToggleViewMode \/ \E e \in ExternalEffects : OpenExternalWith(TRUE, e)) =>
           /\ Len(state'.metadata) >= Len(state.metadata)
           /\ HasPrefix(state'.metadata, Front(state.metadata))]_vars

(***************************************************************************)
(* Horizontal scrolling over several lines: a specification that starts    *)
(* in a text view of two lines of valid UTF-8 in a narrow pane and moves    *)
(* up, down, left and right.                                               *)
(***************************************************************************)
\* the second line has at most MaxSecondLine codepoints
MaxSecondLine == 2

GridInit ==
    /\ \E cfg \in ConfigChoices, first \in Utf8Lines(MaxCodepoints),
          second \in Utf8Lines(MaxSecondLine) :
         state = [InitialState(FORCE_VIEW_NONE, cfg) EXCEPT
                     !.filepath = RootPath,
                     !.breadcrumbs = <<RootPath>>,
                     !.content = <<first, second>>,
                     !.max_line_len = MaxLineLen(<<first, second>>)]
    /\ disk = [p \in Paths |-> IF p = RootPath THEN "txt" ELSE Absent]
    /\ pc = "loop"
    /\ res = FAT_SUCCESS
    /\ ub = FALSE
    /\ faults = 0

GridSpec ==
    GridInit /\ [][ScrollRightAt(NarrowPane) \/ ScrollLeft \/ ScrollDown \/ ScrollUp]_vars

\* C40: after any interleaving of vertical moves and horizontal scrolls,
\* whenever a horizontal scroll uses left_char as an index into the line at
\* top_line, left_char is at most the byte length of that line and is a
\* codepoint boundary of it: no scroll reads past the end of a line or
\* lands inside a multi-byte sequence
C40_LeftCharInsideLine ==
    (/\ pc = "loop"
     /\ state.left_char > 0
     /\ LineValid(state)) =>
        /\ ~ub
        /\ state.left_char <= Len(state.content[state.top_line + 1])
        /\ state.left_char \in Boundaries(state.content[state.top_line + 1])

====
